---- MODULE Spec2Model ----
(***************************************************************************)
(* State-machine model of the BLE HID client for Bang & Olufsen remotes    *)
(* (the discovery/cache based component, src/unnamed/part_000):            *)
(*   - the persisted handle cache (load_cached_pairs_, save_cached_pairs_),*)
(*   - the GATT database scan (discover_notify_pairs_),                    *)
(*   - the guarded CCC write / notify registration and the lifecycle       *)
(*     checkpoints of gap_event_handler and gattc_event_handler,           *)
(*   - the gesture decoder (send_input_report_event) with its named        *)
(*     long-press and finalize timers.                                     *)
(* Time is the value of millis(); a named timeout is stored with its       *)
(* absolute due time and its callback runs when that time is reached.      *)
(* millis() is a uint32 that wraps after 49 days; every run of the model   *)
(* ends long before that, and the guard's unsigned subtraction is          *)
(* wrap-safe, so the width is not modelled.                                *)
(***************************************************************************)
EXTENDS Integers, Sequences, FiniteSets, TLC

VARIABLES
    now,              \* esphome::millis()
    connected,        \* the stack has delivered OPEN_EVT and no DISCONNECT_EVT since
    timers,           \* scheduler: timeout name -> absolute due time, or NoTimer
    btn,              \* btn_state_by_instance[this].st : ButtonId -> ButtonState
    active_button,    \* btn_state_by_instance[this].active_button
    pairs,            \* ble_state.pairs (vector<NotifyPair>)
    ccc_by_ccc,       \* ble_state.ccc_by_ccc : ccc handle -> CccState (map, partial)
    ccc_value_by_ccc, \* ble_state.ccc_value_by_ccc : ccc handle -> desired value
    loaded_pairs,     \* ble_state.loaded_pairs
    last_notify_ms,   \* ble_state.last_notify_ms
    hid_range,        \* ble_state.have_hid_range / hid_start / hid_end
    tried_ccc_both_bits, \* ble_state.tried_ccc_both_bits
    hc,               \* handle_cache_by_instance[this] : pref_init, loaded, blob
    stored,           \* the record held by the persistence store for this MAC
    emitted,          \* events handed to the event sink by the last handler
    writes,           \* descriptor writes requested by the last handler
    regs,             \* notify registrations requested by the last handler
    saves,            \* persistence writes requested by the last handler
    op,               \* the handler that ran last
    events,           \* events emitted since the gesture state was last idle
    hist,             \* decoder steps taken since the gesture state was last idle
    notified,         \* a notification was delivered since the connection was opened
    fallback_runs,    \* runs of the 0x0003 fallback since the connection was opened
    opens,            \* OPEN_EVTs delivered so far
    gattdb,           \* the attribute database of the peripheral
    saved_pairs       \* the working set whose save last wrote the stored record

gestureVars == <<btn, active_button, emitted, events, hist>>
bleVars     == <<pairs, ccc_by_ccc, ccc_value_by_ccc, loaded_pairs, hid_range, hc, stored>>
outVars     == <<writes, regs, saves>>
vars == <<now, connected, timers, btn, active_button, pairs, ccc_by_ccc,
          ccc_value_by_ccc, loaded_pairs, last_notify_ms, hid_range,
          tried_ccc_both_bits, hc, stored, emitted, writes, regs, saves, op,
          events, hist, notified, fallback_runs, opens, gattdb, saved_pairs>>

-----------------------------------------------------------------------------
(* Bounds of the model *)

StartMs  == 1000     \* millis() when the model starts (some time after boot)
MaxTime  == 8000     \* no time advance beyond this value of millis()
IdleStep == 5000     \* a time advance taken while no timeout is due sooner
MaxGestureTime == 3000  \* the same limit in the gesture specification
MaxHist  == 5        \* decoder steps recorded since the last idle gesture state
MaxOpens == 2        \* connections opened in one run
MaxBurst == 10       \* decoder steps recorded in one click burst (SpecBurst)
MaxCodes == 3        \* decoder steps recorded since the last idle state (SpecCodes)
MaxLiveTime == 3000  \* no time advance beyond this value of millis() (SpecLive)

-----------------------------------------------------------------------------
(* Program constants *)

FALLBACK_INPUT_HANDLE == 62
FALLBACK_CCC_HANDLE   == 63
MULTIPRESS_GAP_MS     == 400
LONG_PRESS_MS         == 1500
CCC_MIN_INTERVAL_MS   == 5000
POST_OPEN_FAST_MS     == 80
POST_OPEN_MS          == 600
CCC_RETRY_MS          == 2000
MAX_CLICKS            == 3

UP    == 0
DOWN  == 1
LEFT  == 2
RIGHT == 3
NONE  == 255
Buttons == {UP, DOWN, LEFT, RIGHT}

NoTimer == -1

-----------------------------------------------------------------------------
(* Helpers of the decoder *)

HexDigits == <<"0","1","2","3","4","5","6","7","8","9","a","b","c","d","e","f">>

\* hex4: four lower-case hex digits, zero padded
hex4(v) ==
    HexDigits[((v \div 4096) % 16) + 1] \o HexDigits[((v \div 256) % 16) + 1]
      \o HexDigits[((v \div 16) % 16) + 1] \o HexDigits[(v % 16) + 1]

button_name(b) ==
    CASE b = UP    -> "up"
      [] b = DOWN  -> "down"
      [] b = LEFT  -> "left"
      [] b = RIGHT -> "right"
      [] OTHER     -> "unknown"

raw_to_button_press(raw) ==
    CASE raw = 6  -> UP
      [] raw = 1  -> DOWN
      [] raw = 11 -> LEFT
      [] raw = 10 -> RIGHT
      [] OTHER    -> NONE

LongKey(b)  == "long_" \o button_name(b)
FinalKey(b) == "final_" \o button_name(b)

TimerNames ==
    {"post_open_enable_fast", "post_open_enable", "ccc_retry"}
      \cup {LongKey(b) : b \in Buttons} \cup {FinalKey(b) : b \in Buttons}

ButtonState0 == [is_down |-> FALSE, long_fired |-> FALSE, click_count |-> 0]
InstanceButtons0 == [b \in Buttons |-> ButtonState0]

Event(action, clicks, raw_for_event) ==
    [action |-> action, clicks |-> clicks, raw |-> raw_for_event]

\* the code of a payload read low byte first
RawOfLittleEndian(value) == value[2] * 256 + value[1]

\* the 16-bit code of a payload: value[0] << 8 | value[1] (C arrays are 0-based)
RawOf(value) == value[1] * 256 + value[2]

-----------------------------------------------------------------------------
(* Notify pairs, maps and the persisted handle cache *)

NotifyPair(i, c) == [input_handle |-> i, ccc_handle |-> c]
NoPair == NotifyPair(0, 0)

CccState0 == [enabled |-> FALSE, last_attempt_ms |-> 0]

EmptyMap == [k \in {} |-> 0]
MapPut(m, k, v) == [x \in (DOMAIN m) \cup {k} |-> IF x = k THEN v ELSE m[x]]

\* 0xB0E05A11 as <<high 16 bits, low 16 bits>>: the value needs 32 unsigned bits
HANDLE_CACHE_MAGIC     == <<45280, 23057>>
HANDLE_CACHE_VERSION   == 1
HANDLE_CACHE_MAX_PAIRS == 6

NoPairs6 == [i \in 1..HANDLE_CACHE_MAX_PAIRS |-> NoPair]

\* HandleCacheBlob{} : default member initialisers
HandleCacheBlob0 ==
    [magic |-> HANDLE_CACHE_MAGIC, version |-> HANDLE_CACHE_VERSION, count |-> 0,
     pairs |-> NoPairs6]

\* the fixed array of a blob holding the pairs of ps in its first slots
PairsArray(ps) ==
    [i \in 1..HANDLE_CACHE_MAX_PAIRS |-> IF i <= Len(ps) THEN ps[i] ELSE NoPair]

InstanceHandleCache0 == [pref_init |-> FALSE, loaded |-> FALSE, blob |-> HandleCacheBlob0]

NoRecord == [absent |-> TRUE]

\* add_pair_unique_ without the search for an equal pair
AddPairAlways(v, p) ==
    IF p.input_handle = 0 \/ p.ccc_handle = 0 THEN v ELSE Append(v, p)

\* add_pair_unique_ without the test for zero handles
AddPairUnchecked(v, p) ==
    IF \E i \in 1..Len(v) : v[i] = p THEN v ELSE Append(v, p)

add_pair_unique_(v, p) ==
    IF p.input_handle = 0 \/ p.ccc_handle = 0 THEN v
    ELSE IF \E i \in 1..Len(v) : v[i] = p THEN v
    ELSE Append(v, p)

input_is_known_(ps, input_handle) ==
    \E i \in 1..Len(ps) : ps[i].input_handle = input_handle

\* the instance's BLE state as one value, threaded through the helpers below
Cur ==
    [pairs |-> pairs, ccc_by_ccc |-> ccc_by_ccc, ccc_value_by_ccc |-> ccc_value_by_ccc,
     loaded_pairs |-> loaded_pairs, last_notify_ms |-> last_notify_ms,
     hid_range |-> hid_range, tried_ccc_both_bits |-> tried_ccc_both_bits,
     hc |-> hc, stored |-> stored,
     writes |-> <<>>, regs |-> <<>>, saves |-> <<>>, fallbacks |-> 0]

ensure_pref_(s) == [s EXCEPT !.hc.pref_init = TRUE]

RECURSIVE AddBlobPairs(_, _, _)
\* for (i = 0; i < blob.count && i < HANDLE_CACHE_MAX_PAIRS; i++) add_pair_unique_
AddBlobPairs(v, blob, i) ==
    IF i < blob.count /\ i < HANDLE_CACHE_MAX_PAIRS
    THEN AddBlobPairs(add_pair_unique_(v, blob.pairs[i + 1]), blob, i + 1)
    ELSE v

RECURSIVE DefaultNotify(_, _, _)
\* for (p : pairs) if ccc not in the desired-value map: map[ccc] = 0x0001
DefaultNotify(m, ps, i) ==
    IF i > Len(ps) THEN m
    ELSE DefaultNotify(
           IF ps[i].ccc_handle # 0 /\ ps[i].ccc_handle \notin DOMAIN m
           THEN MapPut(m, ps[i].ccc_handle, 1) ELSE m,
           ps, i + 1)

\* the build with BLE_HID_INCLUDE_FALLBACK_PAIR set to 0
NoFallbackPair(s) == s

\* #if BLE_HID_INCLUDE_FALLBACK_PAIR (default 1)
AddFallbackPair(s) ==
    [s EXCEPT
       !.pairs = add_pair_unique_(@, NotifyPair(FALLBACK_INPUT_HANDLE, FALLBACK_CCC_HANDLE)),
       !.ccc_value_by_ccc =
           IF FALLBACK_CCC_HANDLE # 0 /\ FALLBACK_CCC_HANDLE \notin DOMAIN @
           THEN MapPut(@, FALLBACK_CCC_HANDLE, 1) ELSE @]

\* load_cached_pairs_ without the magic/version check
LoadTrustsRecord(s, load_ok) ==
    IF s.hc.loaded THEN s
    ELSE
      LET s1  == ensure_pref_(s)
          ok  == load_ok /\ s.stored # NoRecord
          tmp == s.stored
          s2  == [s1 EXCEPT !.pairs = <<>>, !.ccc_by_ccc = EmptyMap,
                            !.ccc_value_by_ccc = EmptyMap, !.last_notify_ms = 0,
                            !.tried_ccc_both_bits = FALSE]
          s3  == IF ok
                 THEN LET ps == AddBlobPairs(s2.pairs, tmp, 0)
                      IN [s2 EXCEPT !.hc.blob = tmp, !.pairs = ps,
                                    !.ccc_value_by_ccc = DefaultNotify(@, ps, 1)]
                 ELSE [s2 EXCEPT !.hc.blob = HandleCacheBlob0]
          s4  == AddFallbackPair(s3)
      IN [s4 EXCEPT !.hc.loaded = TRUE, !.loaded_pairs = TRUE]

\* load_ok: the result of pref.load when the store holds a record
load_cached_pairs_(s, load_ok) ==
    IF s.hc.loaded THEN s
    ELSE
      LET s1  == ensure_pref_(s)
          ok  == load_ok /\ s.stored # NoRecord
          tmp == s.stored
          s2  == [s1 EXCEPT !.pairs = <<>>, !.ccc_by_ccc = EmptyMap,
                            !.ccc_value_by_ccc = EmptyMap, !.last_notify_ms = 0,
                            !.tried_ccc_both_bits = FALSE]
          s3  == IF ok /\ tmp.magic = HANDLE_CACHE_MAGIC /\ tmp.version = HANDLE_CACHE_VERSION
                 THEN LET ps == AddBlobPairs(s2.pairs, tmp, 0)
                      IN [s2 EXCEPT !.hc.blob = tmp, !.pairs = ps,
                                    !.ccc_value_by_ccc = DefaultNotify(@, ps, 1)]
                 ELSE [s2 EXCEPT !.hc.blob = HandleCacheBlob0]
          s4  == AddFallbackPair(s3)
      IN [s4 EXCEPT !.hc.loaded = TRUE, !.loaded_pairs = TRUE]

RECURSIVE ValidPrefixFive(_, _, _)
\* ValidPrefix that stops one pair below the capacity
ValidPrefixFive(ps, i, out) ==
    IF i > Len(ps) \/ Len(out) >= HANDLE_CACHE_MAX_PAIRS - 1 THEN out
    ELSE ValidPrefixFive(ps, i + 1,
           IF ps[i].input_handle = 0 \/ ps[i].ccc_handle = 0 THEN out
           ELSE Append(out, ps[i]))

RECURSIVE ValidPrefix(_, _, _)
\* the first HANDLE_CACHE_MAX_PAIRS pairs of ps with non-zero handles, in order
ValidPrefix(ps, i, out) ==
    IF i > Len(ps) \/ Len(out) >= HANDLE_CACHE_MAX_PAIRS THEN out
    ELSE ValidPrefix(ps, i + 1,
           IF ps[i].input_handle = 0 \/ ps[i].ccc_handle = 0 THEN out
           ELSE Append(out, ps[i]))

\* save_cached_pairs_ without the comparison with the record in memory
SaveAlways(s, save_ok) ==
    IF ~s.hc.pref_init THEN s
    ELSE
      LET kept == ValidPrefix(s.pairs, 1, <<>>)
          out  == [magic |-> HANDLE_CACHE_MAGIC, version |-> HANDLE_CACHE_VERSION,
                   count |-> Len(kept), pairs |-> PairsArray(kept)]
      IN [s EXCEPT !.hc.blob = out,
                   !.stored = IF save_ok THEN out ELSE @,
                   !.saves = Append(@, out)]

\* save_ok: the result of pref.save
save_cached_pairs_(s, save_ok) ==
    IF ~s.hc.pref_init THEN s
    ELSE
      LET kept    == ValidPrefix(s.pairs, 1, <<>>)
          out     == [magic |-> HANDLE_CACHE_MAGIC, version |-> HANDLE_CACHE_VERSION,
                      count |-> Len(kept), pairs |-> PairsArray(kept)]
          changed == \/ out.count # s.hc.blob.count
                     \/ \E i \in 1..out.count : out.pairs[i] # s.hc.blob.pairs[i]
      IN IF ~changed THEN s
         ELSE [s EXCEPT !.hc.blob = out,
                        !.stored = IF save_ok THEN out ELSE @,
                        !.saves = Append(@, out)]

-----------------------------------------------------------------------------
(* CCC write + register-for-notify (guarded, per pair) *)

\* reset_ccc_state_ that leaves the fallback-tried flag as it is
ResetKeepsTried(s) ==
    [s EXCEPT !.ccc_by_ccc = EmptyMap, !.last_notify_ms = 0]

reset_ccc_state_(s) ==
    [s EXCEPT !.ccc_by_ccc = EmptyMap, !.last_notify_ms = 0, !.tried_ccc_both_bits = FALSE]

desired_ccc_value_(s, ccc_handle) ==
    IF ccc_handle \in DOMAIN s.ccc_value_by_ccc THEN s.ccc_value_by_ccc[ccc_handle] ELSE 1

\* the two bytes handed to esp_ble_gattc_write_char_descr: low byte first
CccBytes(ccc_u16) == <<ccc_u16 % 256, (ccc_u16 \div 256) % 256>>

\* write_ccc_and_register_ that marks the descriptor subscribed whatever the write returned
WriteMarksAlways(s, force, input_handle, ccc_handle, ccc_value_override, use_override, r_ok) ==
    LET cs == IF ccc_handle \in DOMAIN s.ccc_by_ccc THEN s.ccc_by_ccc[ccc_handle] ELSE CccState0
    IN IF ~force /\ cs.enabled /\ (now - cs.last_attempt_ms) < CCC_MIN_INTERVAL_MS
       THEN [s EXCEPT !.ccc_by_ccc = MapPut(@, ccc_handle, cs)]
       ELSE LET ccc_u16 == IF use_override THEN ccc_value_override
                           ELSE desired_ccc_value_(s, ccc_handle)
            IN [s EXCEPT
                  !.ccc_by_ccc = MapPut(@, ccc_handle,
                                    [enabled |-> TRUE, last_attempt_ms |-> now]),
                  !.writes = Append(@, [handle |-> ccc_handle, value |-> CccBytes(ccc_u16),
                                        input |-> input_handle, ok |-> r_ok]),
                  !.regs = Append(@, input_handle)]

\* write_ccc_and_register_ that asks for the registration only after a successful write
WriteRegistersOnSuccess(s, force, input_handle, ccc_handle, ccc_value_override, use_override, r_ok) ==
    LET cs == IF ccc_handle \in DOMAIN s.ccc_by_ccc THEN s.ccc_by_ccc[ccc_handle] ELSE CccState0
    IN IF ~force /\ cs.enabled /\ (now - cs.last_attempt_ms) < CCC_MIN_INTERVAL_MS
       THEN [s EXCEPT !.ccc_by_ccc = MapPut(@, ccc_handle, cs)]
       ELSE LET ccc_u16 == IF use_override THEN ccc_value_override
                           ELSE desired_ccc_value_(s, ccc_handle)
            IN [s EXCEPT
                  !.ccc_by_ccc = MapPut(@, ccc_handle,
                                    [enabled |-> (r_ok \/ cs.enabled), last_attempt_ms |-> now]),
                  !.writes = Append(@, [handle |-> ccc_handle, value |-> CccBytes(ccc_u16),
                                        input |-> input_handle, ok |-> r_ok]),
                  !.regs = IF r_ok THEN Append(@, input_handle) ELSE @]

\* write_ccc_and_register_ without the guard interval: the pass never skips
WriteAlways(s, force, input_handle, ccc_handle, ccc_value_override, use_override, r_ok) ==
    LET cs == IF ccc_handle \in DOMAIN s.ccc_by_ccc THEN s.ccc_by_ccc[ccc_handle] ELSE CccState0
        ccc_u16 == IF use_override THEN ccc_value_override
                   ELSE desired_ccc_value_(s, ccc_handle)
    IN [s EXCEPT
          !.ccc_by_ccc = MapPut(@, ccc_handle,
                            [enabled |-> (r_ok \/ cs.enabled), last_attempt_ms |-> now]),
          !.writes = Append(@, [handle |-> ccc_handle, value |-> CccBytes(ccc_u16),
                                input |-> input_handle, ok |-> r_ok]),
          !.regs = Append(@, input_handle)]

\* r_ok: esp_ble_gattc_write_char_descr returned ESP_OK.  The result of
\* esp_ble_gattc_register_for_notify is only logged.
write_ccc_and_register_(s, force, input_handle, ccc_handle, ccc_value_override, use_override, r_ok) ==
    LET cs == IF ccc_handle \in DOMAIN s.ccc_by_ccc THEN s.ccc_by_ccc[ccc_handle] ELSE CccState0
    IN IF ~force /\ cs.enabled /\ (now - cs.last_attempt_ms) < CCC_MIN_INTERVAL_MS
       THEN [s EXCEPT !.ccc_by_ccc = MapPut(@, ccc_handle, cs)]
       ELSE LET ccc_u16 == IF use_override THEN ccc_value_override
                           ELSE desired_ccc_value_(s, ccc_handle)
            IN [s EXCEPT
                  !.ccc_by_ccc = MapPut(@, ccc_handle,
                                    [enabled |-> (r_ok \/ cs.enabled), last_attempt_ms |-> now]),
                  !.writes = Append(@, [handle |-> ccc_handle, value |-> CccBytes(ccc_u16),
                                        input |-> input_handle, ok |-> r_ok]),
                  !.regs = Append(@, input_handle)]

RECURSIVE EnableFrom(_, _, _, _)
\* for (auto &p : st.pairs) write_ccc_and_register_(..., force, p..., 0, false)
EnableFrom(s, force, wr, i) ==
    IF i > Len(s.pairs) THEN s
    ELSE EnableFrom(
           write_ccc_and_register_(s, force, s.pairs[i].input_handle, s.pairs[i].ccc_handle,
                                   0, FALSE, wr[s.pairs[i].ccc_handle]),
           force, wr, i + 1)

\* wr[h]: the result of a descriptor write attempted on handle h
enable_notifications_for_all_pairs_(s, force, wr) == EnableFrom(s, force, wr, 1)

RECURSIVE BothBitsFrom(_, _, _)
BothBitsFrom(s, wr, i) ==
    IF i > Len(s.pairs) THEN s
    ELSE BothBitsFrom(
           write_ccc_and_register_(s, TRUE, s.pairs[i].input_handle, s.pairs[i].ccc_handle,
                                   3, TRUE, wr[s.pairs[i].ccc_handle]),
           wr, i + 1)

RECURSIVE BothBitsStoredFrom(_, _, _)
BothBitsStoredFrom(s, wr, i) ==
    IF i > Len(s.pairs) THEN s
    ELSE BothBitsStoredFrom(
           write_ccc_and_register_(
              [s EXCEPT !.ccc_value_by_ccc = MapPut(@, s.pairs[i].ccc_handle, 3)],
              TRUE, s.pairs[i].input_handle, s.pairs[i].ccc_handle, 0, FALSE,
              wr[s.pairs[i].ccc_handle]),
           wr, i + 1)

\* try_enable_ccc_both_bits_once_ that makes 0x0003 the desired value of every descriptor
TryBothBitsSetsDesired(s, wr) ==
    IF s.tried_ccc_both_bits THEN s
    ELSE BothBitsStoredFrom([s EXCEPT !.tried_ccc_both_bits = TRUE, !.fallbacks = @ + 1], wr, 1)

\* try_enable_ccc_both_bits_once_ that does not look at the fallback-tried flag
TryBothBitsAlways(s, wr) ==
    BothBitsFrom([s EXCEPT !.tried_ccc_both_bits = TRUE, !.fallbacks = @ + 1], wr, 1)

try_enable_ccc_both_bits_once_(s, wr) ==
    IF s.tried_ccc_both_bits THEN s
    ELSE BothBitsFrom([s EXCEPT !.tried_ccc_both_bits = TRUE, !.fallbacks = @ + 1], wr, 1)

-----------------------------------------------------------------------------
(* GATT DB discovery *)

UUID_HID_SERVICE == 6162     \* 0x1812
UUID_REPORT      == 10829    \* 0x2A4D
UUID_CCC         == 10498    \* 0x2902

\* one esp_gattc_db_elem_t
DbElem(type, uuid_len, uuid16, handle, props) ==
    [type |-> type, uuid_len |-> uuid_len, uuid16 |-> uuid16,
     attribute_handle |-> handle, properties |-> props]

NoCandidate == [cur_input |-> 0, cur_ccc |-> 0, cur_notify |-> FALSE, cur_indicate |-> FALSE]

\* flush that prefers indicate: 0x0002 whenever the characteristic indicates
FlushPrefersIndicate(s, c) ==
    IF c.cur_input # 0 /\ c.cur_ccc # 0 /\ (c.cur_notify \/ c.cur_indicate)
    THEN [s EXCEPT
            !.pairs = add_pair_unique_(@, NotifyPair(c.cur_input, c.cur_ccc)),
            !.ccc_value_by_ccc = MapPut(@, c.cur_ccc, IF c.cur_indicate THEN 2 ELSE 1)]
    ELSE s

\* flush that records the desired value of a candidate before looking at its properties
FlushValueFirst(s, c) ==
    IF c.cur_input # 0 /\ c.cur_ccc # 0
    THEN [s EXCEPT
            !.pairs = IF c.cur_notify \/ c.cur_indicate
                      THEN add_pair_unique_(@, NotifyPair(c.cur_input, c.cur_ccc)) ELSE @,
            !.ccc_value_by_ccc = MapPut(@, c.cur_ccc, IF c.cur_notify THEN 1 ELSE 2)]
    ELSE s

\* the lambda flush of discover_notify_pairs_, on the state (its reset of the
\* candidate is done by the caller)
flush(s, c) ==
    IF c.cur_input # 0 /\ c.cur_ccc # 0 /\ (c.cur_notify \/ c.cur_indicate)
    THEN [s EXCEPT
            !.pairs = add_pair_unique_(@, NotifyPair(c.cur_input, c.cur_ccc)),
            !.ccc_value_by_ccc = MapPut(@, c.cur_ccc, IF c.cur_notify THEN 1 ELSE 2)]
    ELSE s

RECURSIVE WalkDbKeepsCandidate(_, _, _, _)
\* the walk without the flush and reset at a characteristic that is no Report
WalkDbKeepsCandidate(s, c, db, i) ==
    IF i > Len(db) THEN flush(s, c)
    ELSE
      LET e      == db[i]
          uuid16 == e.uuid_len = "LEN_16"
          u16    == IF uuid16 THEN e.uuid16 ELSE 0
      IN IF e.type = "CHARACTERISTIC"
         THEN IF uuid16 /\ u16 = UUID_REPORT
              THEN WalkDbKeepsCandidate(flush(s, c),
                     [cur_input    |-> e.attribute_handle, cur_ccc |-> 0,
                      cur_notify   |-> "NOTIFY" \in e.properties,
                      cur_indicate |-> "INDICATE" \in e.properties],
                     db, i + 1)
              ELSE WalkDbKeepsCandidate(s, c, db, i + 1)
         ELSE IF e.type = "DESCRIPTOR"
         THEN WalkDbKeepsCandidate(s,
                     IF c.cur_input # 0 /\ uuid16 /\ u16 = UUID_CCC
                     THEN [c EXCEPT !.cur_ccc = e.attribute_handle] ELSE c,
                     db, i + 1)
         ELSE WalkDbKeepsCandidate(s, c, db, i + 1)

RECURSIVE WalkDb(_, _, _, _)
\* the for loop over db[0..out_count) followed by the final flush
WalkDb(s, c, db, i) ==
    IF i > Len(db) THEN flush(s, c)
    ELSE
      LET e      == db[i]
          uuid16 == e.uuid_len = "LEN_16"
          u16    == IF uuid16 THEN e.uuid16 ELSE 0
      IN IF e.type = "CHARACTERISTIC"
         THEN WalkDb(flush(s, c),
                     IF uuid16 /\ u16 = UUID_REPORT
                     THEN [cur_input    |-> e.attribute_handle, cur_ccc |-> 0,
                           cur_notify   |-> "NOTIFY" \in e.properties,
                           cur_indicate |-> "INDICATE" \in e.properties]
                     ELSE NoCandidate,
                     db, i + 1)
         ELSE IF e.type = "DESCRIPTOR"
         THEN WalkDb(s,
                     IF c.cur_input # 0 /\ uuid16 /\ u16 = UUID_CCC
                     THEN [c EXCEPT !.cur_ccc = e.attribute_handle] ELSE c,
                     db, i + 1)
         ELSE WalkDb(s, c, db, i + 1)

\* the attributes the stack reports for the handle range start..end
InRange(db, start, end) ==
    SelectSeq(db, LAMBDA e : e.attribute_handle >= start /\ e.attribute_handle <= end)

\* discover_notify_pairs_ that walks and saves whatever the two queries returned
DiscoverIgnoresFailure(s, cnt_ok, db_ok, db, save_ok) ==
    LET r       == s.hid_range
        useHid  == r.have_hid_range /\ r.hid_start # 0 /\ r.hid_end # 0
                     /\ r.hid_end >= r.hid_start
        start   == IF useHid THEN r.hid_start ELSE 1
        end     == IF useHid THEN r.hid_end ELSE 65535
        fetched == InRange(db, start, end)
    IN save_cached_pairs_(WalkDb(s, NoCandidate, fetched, 1), save_ok)

\* discover_notify_pairs_ without the final save_cached_pairs_
DiscoverNoSave(s, cnt_ok, db_ok, db, save_ok) ==
    LET r       == s.hid_range
        useHid  == r.have_hid_range /\ r.hid_start # 0 /\ r.hid_end # 0
                     /\ r.hid_end >= r.hid_start
        start   == IF useHid THEN r.hid_start ELSE 1
        end     == IF useHid THEN r.hid_end ELSE 65535
        fetched == InRange(db, start, end)
    IN IF ~cnt_ok \/ Len(fetched) = 0 THEN s
       ELSE IF ~db_ok THEN s
       ELSE WalkDb(s, NoCandidate, fetched, 1)

\* cnt_ok / db_ok: esp_ble_gattc_get_attr_count / esp_ble_gattc_get_db returned
\* ESP_OK; db: the attribute database of the peripheral
discover_notify_pairs_(s, cnt_ok, db_ok, db, save_ok) ==
    LET r       == s.hid_range
        useHid  == r.have_hid_range /\ r.hid_start # 0 /\ r.hid_end # 0
                     /\ r.hid_end >= r.hid_start
        start   == IF useHid THEN r.hid_start ELSE 1
        end     == IF useHid THEN r.hid_end ELSE 65535
        fetched == InRange(db, start, end)
    IN IF ~cnt_ok \/ Len(fetched) = 0 THEN s
       ELSE IF ~db_ok THEN s
       ELSE save_cached_pairs_(WalkDb(s, NoCandidate, fetched, 1), save_ok)

-----------------------------------------------------------------------------
(* The scheduler: set_timeout(name, delay, f) / cancel_timeout(name) *)

set_timeout(t, name, delay) == [t EXCEPT ![name] = now + delay]
cancel_timeout(t, name)     == [t EXCEPT ![name] = NoTimer]

Due(name) == timers[name] # NoTimer /\ timers[name] <= now

-----------------------------------------------------------------------------
(* Gesture decoder *)

GestureIdle ==
    active_button = NONE /\ \A b \in Buttons : btn[b] = ButtonState0

\* the decoder took the step `step` and handed the events evs to the sink
Record(step, evs) ==
    /\ emitted' = evs
    /\ hist'    = Append(IF GestureIdle THEN <<>> ELSE hist, step)
    /\ events'  = (IF GestureIdle THEN <<>> ELSE events) \o evs

NoBleOutput == writes' = <<>> /\ regs' = <<>> /\ saves' = <<>>

\* Wheel that also forgets the active button
WheelClearsActive(raw, raw_hex) ==
    /\ UNCHANGED <<btn, timers>>
    /\ active_button' = NONE
    /\ Record(<<"notify", raw_hex>>,
              <<Event(IF raw = 16384 THEN "rotate_right" ELSE "rotate_left", -1, raw_hex)>>)

\* raw == 0x4000 / raw == 0x8000
Wheel(raw, raw_hex) ==
    /\ UNCHANGED <<btn, active_button, timers>>
    /\ Record(<<"notify", raw_hex>>,
              <<Event(IF raw = 16384 THEN "rotate_right" ELSE "rotate_left", -1, raw_hex)>>)

\* Press with the burst forgotten: the press also clears the click count
PressClearsCount(press_btn, raw_hex) ==
    /\ active_button' = press_btn
    /\ btn' = [btn EXCEPT ![press_btn] =
                 [is_down |-> TRUE, long_fired |-> FALSE, click_count |-> 0]]
    /\ timers' = set_timeout(
                   cancel_timeout(cancel_timeout(timers, FinalKey(press_btn)), LongKey(press_btn)),
                   LongKey(press_btn), LONG_PRESS_MS)
    /\ Record(<<"notify", raw_hex>>,
              <<Event(button_name(press_btn) \o "_pressed", -1, raw_hex)>>)

\* Press with one finalize timeout for all buttons: the press cancels every
\* pending final_<button>
PressCancelsFinals(press_btn, raw_hex) ==
    /\ active_button' = press_btn
    /\ btn' = [btn EXCEPT ![press_btn].is_down = TRUE, ![press_btn].long_fired = FALSE]
    /\ timers' = set_timeout(
                   [n \in TimerNames |->
                      IF n \in {FinalKey(b) : b \in Buttons} \cup {LongKey(press_btn)}
                      THEN NoTimer ELSE timers[n]],
                   LongKey(press_btn), LONG_PRESS_MS)
    /\ Record(<<"notify", raw_hex>>,
              <<Event(button_name(press_btn) \o "_pressed", -1, raw_hex)>>)

\* Press that leaves a pending long_<button> timeout running instead of
\* cancelling it and arming a new one
PressKeepsLongTimer(press_btn, raw_hex) ==
    /\ active_button' = press_btn
    /\ btn' = [btn EXCEPT ![press_btn].is_down = TRUE, ![press_btn].long_fired = FALSE]
    /\ timers' = IF timers[LongKey(press_btn)] # NoTimer
                 THEN cancel_timeout(timers, FinalKey(press_btn))
                 ELSE set_timeout(cancel_timeout(timers, FinalKey(press_btn)),
                                  LongKey(press_btn), LONG_PRESS_MS)
    /\ Record(<<"notify", raw_hex>>,
              <<Event(button_name(press_btn) \o "_pressed", -1, raw_hex)>>)

\* press_btn != ButtonId::NONE
Press(press_btn, raw_hex) ==
    /\ active_button' = press_btn
    /\ btn' = [btn EXCEPT ![press_btn].is_down = TRUE, ![press_btn].long_fired = FALSE]
    /\ timers' = set_timeout(
                   cancel_timeout(cancel_timeout(timers, FinalKey(press_btn)), LongKey(press_btn)),
                   LongKey(press_btn), LONG_PRESS_MS)
    /\ Record(<<"notify", raw_hex>>,
              <<Event(button_name(press_btn) \o "_pressed", -1, raw_hex)>>)

\* Release without the test for an active button: a zero code with no button
\* active is reported like an unknown code
ReleaseUnguarded(raw_hex) ==
    IF active_button = NONE
    THEN /\ UNCHANGED <<btn, active_button, timers>>
         /\ Record(<<"notify", raw_hex>>, <<Event("raw_" \o raw_hex, -1, raw_hex)>>)
    ELSE LET rb == active_button
             st == btn[rb]
         IN /\ active_button' = NONE
            /\ btn' = [btn EXCEPT ![rb] =
                         IF st.long_fired
                         THEN [is_down |-> FALSE, long_fired |-> FALSE, click_count |-> 0]
                         ELSE [is_down |-> FALSE, long_fired |-> FALSE,
                               click_count |-> IF st.click_count < MAX_CLICKS
                                               THEN st.click_count + 1 ELSE st.click_count]]
            /\ timers' = IF st.long_fired THEN timers
                         ELSE set_timeout(cancel_timeout(timers, FinalKey(rb)),
                                          FinalKey(rb), MULTIPRESS_GAP_MS)
            /\ Record(<<"notify", raw_hex>>,
                      <<Event(button_name(rb) \o "_released", -1, raw_hex)>>)

\* Release attributed to the lowest button that is down instead of the active one
ReleaseOldest(raw_hex) ==
    IF active_button = NONE
    THEN /\ UNCHANGED <<btn, active_button, timers>>
         /\ Record(<<"notify", raw_hex>>, <<>>)
    ELSE LET rb == CHOOSE b \in Buttons :
                      btn[b].is_down /\ \A c \in Buttons : btn[c].is_down => b <= c
             st == btn[rb]
         IN /\ active_button' = NONE
            /\ btn' = [btn EXCEPT ![rb] =
                         IF st.long_fired
                         THEN [is_down |-> FALSE, long_fired |-> FALSE, click_count |-> 0]
                         ELSE [is_down |-> FALSE, long_fired |-> FALSE,
                               click_count |-> IF st.click_count < MAX_CLICKS
                                               THEN st.click_count + 1 ELSE st.click_count]]
            /\ timers' = IF st.long_fired THEN timers
                         ELSE set_timeout(cancel_timeout(timers, FinalKey(rb)),
                                          FinalKey(rb), MULTIPRESS_GAP_MS)
            /\ Record(<<"notify", raw_hex>>,
                      <<Event(button_name(rb) \o "_released", -1, raw_hex)>>)

\* Release without the long_fired branch: every release counts as a click
ReleaseCountsLong(raw_hex) ==
    IF active_button = NONE
    THEN /\ UNCHANGED <<btn, active_button, timers>>
         /\ Record(<<"notify", raw_hex>>, <<>>)
    ELSE LET rb == active_button
             st == btn[rb]
         IN /\ active_button' = NONE
            /\ btn' = [btn EXCEPT ![rb] =
                         [is_down |-> FALSE, long_fired |-> st.long_fired,
                          click_count |-> IF st.click_count < MAX_CLICKS
                                          THEN st.click_count + 1 ELSE st.click_count]]
            /\ timers' = set_timeout(cancel_timeout(timers, FinalKey(rb)),
                                     FinalKey(rb), MULTIPRESS_GAP_MS)
            /\ Record(<<"notify", raw_hex>>,
                      <<Event(button_name(rb) \o "_released", -1, raw_hex)>>)

\* Release without the cap: every counted release adds one to the click-count
ReleaseUncapped(raw_hex) ==
    IF active_button = NONE
    THEN /\ UNCHANGED <<btn, active_button, timers>>
         /\ Record(<<"notify", raw_hex>>, <<>>)
    ELSE LET rb == active_button
             st == btn[rb]
         IN /\ active_button' = NONE
            /\ btn' = [btn EXCEPT ![rb] =
                         IF st.long_fired
                         THEN [is_down |-> FALSE, long_fired |-> FALSE, click_count |-> 0]
                         ELSE [is_down |-> FALSE, long_fired |-> FALSE,
                               click_count |-> st.click_count + 1]]
            /\ timers' = IF st.long_fired THEN timers
                         ELSE set_timeout(cancel_timeout(timers, FinalKey(rb)),
                                          FinalKey(rb), MULTIPRESS_GAP_MS)
            /\ Record(<<"notify", raw_hex>>,
                      <<Event(button_name(rb) \o "_released", -1, raw_hex)>>)

\* Release that counts the click but arms no finalize timeout
ReleaseNoFinalTimer(raw_hex) ==
    IF active_button = NONE
    THEN /\ UNCHANGED <<btn, active_button, timers>>
         /\ Record(<<"notify", raw_hex>>, <<>>)
    ELSE LET rb == active_button
             st == btn[rb]
         IN /\ active_button' = NONE
            /\ btn' = [btn EXCEPT ![rb] =
                         IF st.long_fired
                         THEN [is_down |-> FALSE, long_fired |-> FALSE, click_count |-> 0]
                         ELSE [is_down |-> FALSE, long_fired |-> FALSE,
                               click_count |-> IF st.click_count < MAX_CLICKS
                                               THEN st.click_count + 1 ELSE st.click_count]]
            /\ timers' = IF st.long_fired THEN timers
                         ELSE cancel_timeout(timers, FinalKey(rb))
            /\ Record(<<"notify", raw_hex>>,
                      <<Event(button_name(rb) \o "_released", -1, raw_hex)>>)

\* raw == 0x0000
Release(raw_hex) ==
    IF active_button = NONE
    THEN /\ UNCHANGED <<btn, active_button, timers>>
         /\ Record(<<"notify", raw_hex>>, <<>>)
    ELSE LET rb == active_button
             st == btn[rb]
         IN /\ active_button' = NONE
            /\ btn' = [btn EXCEPT ![rb] =
                         IF st.long_fired
                         THEN [is_down |-> FALSE, long_fired |-> FALSE, click_count |-> 0]
                         ELSE [is_down |-> FALSE, long_fired |-> FALSE,
                               click_count |-> IF st.click_count < MAX_CLICKS
                                               THEN st.click_count + 1 ELSE st.click_count]]
            /\ timers' = IF st.long_fired THEN timers
                         ELSE set_timeout(cancel_timeout(timers, FinalKey(rb)),
                                          FinalKey(rb), MULTIPRESS_GAP_MS)
            /\ Record(<<"notify", raw_hex>>,
                      <<Event(button_name(rb) \o "_released", -1, raw_hex)>>)

\* Unknown that also forgets the active button
UnknownClearsActive(raw_hex) ==
    /\ UNCHANGED <<btn, timers>>
    /\ active_button' = NONE
    /\ Record(<<"notify", raw_hex>>, <<Event("raw_" \o raw_hex, -1, raw_hex)>>)

\* any other code
Unknown(raw_hex) ==
    /\ UNCHANGED <<btn, active_button, timers>>
    /\ Record(<<"notify", raw_hex>>, <<Event("raw_" \o raw_hex, -1, raw_hex)>>)

send_input_report_event(value) ==
    IF Len(value) < 2
    THEN UNCHANGED <<btn, active_button, timers, events, hist>> /\ emitted' = <<>>
    ELSE LET raw       == RawOf(value)
             raw_hex   == hex4(raw)
             press_btn == raw_to_button_press(raw)
         IN IF raw = 16384 \/ raw = 32768 THEN Wheel(raw, raw_hex)
            ELSE IF press_btn # NONE THEN Press(press_btn, raw_hex)
            ELSE IF raw = 0 THEN Release(raw_hex)
            ELSE Unknown(raw_hex)

ClickAction(b, n) ==
    button_name(b) \o (IF n = 1 THEN "_single" ELSE IF n = 2 THEN "_double" ELSE "_triple")

\* the long-press callback without st2.click_count = 0
LongTimeoutKeepsCount(press_btn) ==
    /\ Due(LongKey(press_btn))
    /\ timers' = cancel_timeout(timers, LongKey(press_btn))
    /\ UNCHANGED active_button
    /\ IF btn[press_btn].is_down /\ ~btn[press_btn].long_fired
       THEN /\ btn' = [btn EXCEPT ![press_btn].long_fired = TRUE]
            /\ Record(<<"timer", LongKey(press_btn)>>,
                      <<Event(button_name(press_btn) \o "_long", -1, "")>>)
       ELSE /\ UNCHANGED btn
            /\ Record(<<"noop", LongKey(press_btn)>>, <<>>)
    /\ NoBleOutput
    /\ op' = "long"
    /\ UNCHANGED <<now, connected, pairs, ccc_by_ccc, ccc_value_by_ccc, loaded_pairs,
                   last_notify_ms, hid_range, tried_ccc_both_bits, hc, stored, saved_pairs,
                   notified, fallback_runs, opens, gattdb>>

\* the callback armed by a press under the name long_<button>
LongTimeout(press_btn) ==
    /\ Due(LongKey(press_btn))
    /\ timers' = cancel_timeout(timers, LongKey(press_btn))
    /\ UNCHANGED active_button
    /\ IF btn[press_btn].is_down /\ ~btn[press_btn].long_fired
       THEN /\ btn' = [btn EXCEPT ![press_btn].long_fired = TRUE, ![press_btn].click_count = 0]
            /\ Record(<<"timer", LongKey(press_btn)>>,
                      <<Event(button_name(press_btn) \o "_long", -1, "")>>)
       ELSE /\ UNCHANGED btn
            /\ Record(<<"noop", LongKey(press_btn)>>, <<>>)
    /\ NoBleOutput
    /\ op' = "long"
    /\ UNCHANGED <<now, connected, pairs, ccc_by_ccc, ccc_value_by_ccc, loaded_pairs,
                   last_notify_ms, hid_range, tried_ccc_both_bits, hc, stored, saved_pairs,
                   notified, fallback_runs, opens, gattdb>>

\* FinalTimeout without the test for a click-count of 0
FinalTimeoutIgnoresZero(rb) ==
    /\ Due(FinalKey(rb))
    /\ timers' = cancel_timeout(timers, FinalKey(rb))
    /\ UNCHANGED active_button
    /\ IF btn[rb].is_down \/ btn[rb].long_fired
       THEN /\ UNCHANGED btn
            /\ Record(<<"noop", FinalKey(rb)>>, <<>>)
       ELSE /\ btn' = [btn EXCEPT ![rb].click_count = 0]
            /\ Record(<<"timer", FinalKey(rb)>>,
                      <<Event(ClickAction(rb, btn[rb].click_count), btn[rb].click_count, "")>>)
    /\ NoBleOutput
    /\ op' = "final"
    /\ UNCHANGED <<now, connected, pairs, ccc_by_ccc, ccc_value_by_ccc, loaded_pairs,
                   last_notify_ms, hid_range, tried_ccc_both_bits, hc, stored, saved_pairs,
                   notified, fallback_runs, opens, gattdb>>

\* FinalTimeout without the final st2.click_count = 0
FinalTimeoutKeepsCount(rb) ==
    /\ Due(FinalKey(rb))
    /\ timers' = cancel_timeout(timers, FinalKey(rb))
    /\ UNCHANGED <<active_button, btn>>
    /\ IF btn[rb].is_down \/ btn[rb].long_fired \/ btn[rb].click_count = 0
       THEN Record(<<"noop", FinalKey(rb)>>, <<>>)
       ELSE Record(<<"timer", FinalKey(rb)>>,
                   <<Event(ClickAction(rb, btn[rb].click_count), btn[rb].click_count, "")>>)
    /\ NoBleOutput
    /\ op' = "final"
    /\ UNCHANGED <<now, connected, pairs, ccc_by_ccc, ccc_value_by_ccc, loaded_pairs,
                   last_notify_ms, hid_range, tried_ccc_both_bits, hc, stored, saved_pairs,
                   notified, fallback_runs, opens, gattdb>>

\* the callback armed by a counted release under the name final_<button>
FinalTimeout(rb) ==
    /\ Due(FinalKey(rb))
    /\ timers' = cancel_timeout(timers, FinalKey(rb))
    /\ UNCHANGED active_button
    /\ IF btn[rb].is_down \/ btn[rb].long_fired \/ btn[rb].click_count = 0
       THEN /\ UNCHANGED btn
            /\ Record(<<"noop", FinalKey(rb)>>, <<>>)
       ELSE /\ btn' = [btn EXCEPT ![rb].click_count = 0]
            /\ Record(<<"timer", FinalKey(rb)>>,
                      <<Event(ClickAction(rb, btn[rb].click_count), btn[rb].click_count, "")>>)
    /\ NoBleOutput
    /\ op' = "final"
    /\ UNCHANGED <<now, connected, pairs, ccc_by_ccc, ccc_value_by_ccc, loaded_pairs,
                   last_notify_ms, hid_range, tried_ccc_both_bits, hc, stored, saved_pairs,
                   notified, fallback_runs, opens, gattdb>>

-----------------------------------------------------------------------------
(* Lifecycle handlers *)

Commit(s) ==
    /\ pairs' = s.pairs
    /\ ccc_by_ccc' = s.ccc_by_ccc
    /\ ccc_value_by_ccc' = s.ccc_value_by_ccc
    /\ loaded_pairs' = s.loaded_pairs
    /\ last_notify_ms' = s.last_notify_ms
    /\ hid_range' = s.hid_range
    /\ tried_ccc_both_bits' = s.tried_ccc_both_bits
    /\ hc' = s.hc
    /\ stored' = s.stored
    /\ writes' = s.writes
    /\ regs' = s.regs
    /\ saves' = s.saves
    /\ saved_pairs' = IF s.saves # <<>> /\ s.stored = s.saves[Len(s.saves)]
                      THEN s.pairs ELSE saved_pairs

\* the results of the descriptor writes of one pass over the pairs ps: whether
\* the stack accepts the write request, for each descriptor handle
WriteResults(ps) == [{ps[i].ccc_handle : i \in 1..Len(ps)} -> BOOLEAN]

\* ESP_GATTC_OPEN_EVT
OpenEvt(load_ok) ==
    /\ opens < MaxOpens
    /\ opens' = opens + 1
    /\ connected' = TRUE
    /\ Commit(load_cached_pairs_(Cur, load_ok))
    /\ fallback_runs' = IF connected THEN fallback_runs ELSE 0
    /\ timers' = set_timeout(set_timeout(set_timeout(timers,
                     "post_open_enable_fast", POST_OPEN_FAST_MS),
                     "post_open_enable", POST_OPEN_MS),
                     "ccc_retry", CCC_RETRY_MS)
    /\ notified' = (connected /\ notified)
    /\ emitted' = <<>>
    /\ op' = "open"
    /\ UNCHANGED <<now, btn, active_button, events, hist, gattdb>>

\* the timeout "post_open_enable_fast"
PostOpenFast(load_ok, wr) ==
    /\ Due("post_open_enable_fast")
    /\ timers' = cancel_timeout(timers, "post_open_enable_fast")
    /\ Commit(enable_notifications_for_all_pairs_(load_cached_pairs_(Cur, load_ok), FALSE, wr))
    /\ emitted' = <<>>
    /\ op' = "post_open_fast"
    /\ UNCHANGED <<now, connected, btn, active_button, events, hist, notified,
                   fallback_runs, opens, gattdb>>

\* the timeout "post_open_enable"
PostOpen(load_ok, wr) ==
    /\ Due("post_open_enable")
    /\ timers' = cancel_timeout(timers, "post_open_enable")
    /\ Commit(enable_notifications_for_all_pairs_(load_cached_pairs_(Cur, load_ok), FALSE, wr))
    /\ emitted' = <<>>
    /\ op' = "post_open"
    /\ UNCHANGED <<now, connected, btn, active_button, events, hist, notified,
                   fallback_runs, opens, gattdb>>

\* the timeout "ccc_retry"; wr2: the write results of the fallback
CccRetry(load_ok, wr, wr2) ==
    /\ Due("ccc_retry")
    /\ timers' = cancel_timeout(timers, "ccc_retry")
    /\ LET s == enable_notifications_for_all_pairs_(load_cached_pairs_(Cur, load_ok), FALSE, wr)
           t == IF s.last_notify_ms = 0 THEN try_enable_ccc_both_bits_once_(s, wr2) ELSE s
       IN Commit(t) /\ fallback_runs' = fallback_runs + t.fallbacks
    /\ emitted' = <<>>
    /\ op' = "open_retry"
    /\ UNCHANGED <<now, connected, btn, active_button, events, hist, notified, opens, gattdb>>

\* gap_event_handler running its enable pass with force = false
AuthCmplUnforced(load_ok, wr) ==
    /\ Commit(enable_notifications_for_all_pairs_(load_cached_pairs_(Cur, load_ok), FALSE, wr))
    /\ emitted' = <<>>
    /\ op' = "auth_complete"
    /\ UNCHANGED <<now, connected, timers, btn, active_button, events, hist, notified,
                   fallback_runs, opens, gattdb>>

\* gap_event_handler: ESP_GAP_BLE_AUTH_CMPL_EVT
AuthCmpl(load_ok, wr) ==
    /\ Commit(enable_notifications_for_all_pairs_(load_cached_pairs_(Cur, load_ok), TRUE, wr))
    /\ emitted' = <<>>
    /\ op' = "auth_complete"
    /\ UNCHANGED <<now, connected, timers, btn, active_button, events, hist, notified,
                   fallback_runs, opens, gattdb>>

\* ESP_GATTC_SEARCH_RES_EVT
SearchRes(uuid_len, uuid16, start_handle, end_handle) ==
    /\ Commit(IF uuid_len = "LEN_16" /\ uuid16 = UUID_HID_SERVICE
              THEN [Cur EXCEPT !.hid_range = [have_hid_range |-> TRUE,
                                              hid_start |-> start_handle,
                                              hid_end |-> end_handle]]
              ELSE Cur)
    /\ emitted' = <<>>
    /\ op' = "search_res"
    /\ UNCHANGED <<now, connected, timers, btn, active_button, events, hist, notified,
                   fallback_runs, opens, gattdb>>

\* ESP_GATTC_SEARCH_CMPL_EVT
SearchCmpl(load_ok, cnt_ok, db_ok, save_ok, wr) ==
    /\ Commit(enable_notifications_for_all_pairs_(
                discover_notify_pairs_(load_cached_pairs_(Cur, load_ok),
                                       cnt_ok, db_ok, gattdb, save_ok),
                FALSE, wr))
    /\ emitted' = <<>>
    /\ op' = "search_complete"
    /\ UNCHANGED <<now, connected, timers, btn, active_button, events, hist, notified,
                   fallback_runs, opens, gattdb>>

\* DISCONNECT_EVT without btn_state_by_instance[this] = InstanceButtons{}
DisconnectKeepsButtons ==
    /\ connected' = FALSE
    /\ Commit(reset_ccc_state_(Cur))
    /\ emitted' = <<>>
    /\ op' = "disconnect"
    /\ UNCHANGED <<now, timers, btn, active_button, events, hist, notified, fallback_runs,
                   opens, gattdb>>

\* ESP_GATTC_DISCONNECT_EVT
Disconnect ==
    /\ connected' = FALSE
    /\ Commit(reset_ccc_state_(Cur))
    /\ btn' = InstanceButtons0
    /\ active_button' = NONE
    /\ emitted' = <<>>
    /\ op' = "disconnect"
    /\ UNCHANGED <<now, timers, events, hist, notified, fallback_runs, opens, gattdb>>

\* the device restarts: the per-instance maps are empty again, the store keeps its record
Restart ==
    /\ now' = StartMs
    /\ connected' = FALSE
    /\ timers' = [n \in TimerNames |-> NoTimer]
    /\ btn' = InstanceButtons0
    /\ active_button' = NONE
    /\ pairs' = <<>>
    /\ ccc_by_ccc' = EmptyMap
    /\ ccc_value_by_ccc' = EmptyMap
    /\ loaded_pairs' = FALSE
    /\ last_notify_ms' = 0
    /\ hid_range' = [have_hid_range |-> FALSE, hid_start |-> 0, hid_end |-> 0]
    /\ tried_ccc_both_bits' = FALSE
    /\ hc' = InstanceHandleCache0
    /\ emitted' = <<>>
    /\ NoBleOutput
    /\ op' = "restart"
    /\ events' = <<>>
    /\ hist' = <<>>
    /\ notified' = FALSE
    /\ fallback_runs' = 0
    /\ UNCHANGED <<stored, opens, gattdb, saved_pairs>>

\* ESP_GATTC_NOTIFY_EVT; conn_ok: param->notify.conn_id is the parent's conn id;
\* limit bounds the decoder steps recorded since the decoder was last idle
NotifyWithin(limit, conn_ok, handle, value) ==
    /\ GestureIdle \/ Len(hist) < limit
    /\ IF conn_ok
       THEN /\ Commit([Cur EXCEPT !.last_notify_ms = now])
            /\ notified' = TRUE
            /\ send_input_report_event(value)
       ELSE /\ Commit(Cur)
            /\ emitted' = <<>>
            /\ UNCHANGED <<notified, btn, active_button, timers, events, hist>>
    /\ op' = "notify"
    /\ UNCHANGED <<now, connected, fallback_runs, opens, gattdb>>

\* ESP_GATTC_NOTIFY_EVT, at most MaxHist decoder steps after an idle decoder
Notify(conn_ok, handle, value) == NotifyWithin(MaxHist, conn_ok, handle, value)

\* time passes: at most up to the next due time of a pending timeout
Advance(d, limit) ==
    /\ d > 0
    /\ now + d <= limit
    /\ \A n \in TimerNames : timers[n] # NoTimer => now + d <= timers[n]
    /\ now' = now + d
    /\ op' = "advance"
    /\ emitted' = <<>>
    /\ NoBleOutput
    /\ UNCHANGED <<connected, timers, btn, active_button, pairs, ccc_by_ccc, ccc_value_by_ccc,
                   loaded_pairs, last_notify_ms, hid_range, tried_ccc_both_bits, hc, stored, saved_pairs,
                   events, hist, notified, fallback_runs, opens, gattdb>>

\* the advances considered: to the next due time, or by IdleStep
Steps == {IdleStep} \cup {timers[n] - now : n \in {m \in TimerNames : timers[m] # NoTimer}}

-----------------------------------------------------------------------------
(* Inputs *)

\* persisted records the store may hold for this MAC when the program starts
StoredBlob(magic, version, count, ps) ==
    [magic |-> magic, version |-> version, count |-> count, pairs |-> PairsArray(ps)]

LifecycleRecords == {NoRecord}
ReopenRecords ==
    {StoredBlob(HANDLE_CACHE_MAGIC, HANDLE_CACHE_VERSION, 3,
                <<NotifyPair(FALLBACK_INPUT_HANDLE, FALLBACK_CCC_HANDLE),
                  NotifyPair(61, 63), NotifyPair(64, 65)>>)}

\* records of the store: none, wrong magic, wrong version, a count beyond the
\* capacity over pairs with zero handles and a repeated pair, six pairs written
\* by a build without the fallback pair, the same six pairs under a count of 7
CacheRecords ==
    {NoRecord,
     StoredBlob(<<0, 0>>, HANDLE_CACHE_VERSION, 2, <<NotifyPair(61, 63), NotifyPair(64, 65)>>),
     StoredBlob(HANDLE_CACHE_MAGIC, 2, 2, <<NotifyPair(61, 63), NotifyPair(64, 65)>>),
     StoredBlob(HANDLE_CACHE_MAGIC, HANDLE_CACHE_VERSION, 9,
                <<NotifyPair(61, 63), NotifyPair(0, 65), NotifyPair(61, 63),
                  NotifyPair(64, 0), NotifyPair(64, 65), NotifyPair(66, 67)>>),
     StoredBlob(HANDLE_CACHE_MAGIC, HANDLE_CACHE_VERSION, 6,
                <<NotifyPair(70, 71), NotifyPair(72, 73), NotifyPair(74, 75),
                  NotifyPair(76, 77), NotifyPair(78, 79), NotifyPair(80, 81)>>),
     StoredBlob(HANDLE_CACHE_MAGIC, HANDLE_CACHE_VERSION, 7,
                <<NotifyPair(70, 71), NotifyPair(72, 73), NotifyPair(74, 75),
                  NotifyPair(76, 77), NotifyPair(78, 79), NotifyPair(80, 81)>>)}

\* attribute databases of the peripheral
ReportChar(h, props) == DbElem("CHARACTERISTIC", "LEN_16", UUID_REPORT, h, props)
CccDescr(h)          == DbElem("DESCRIPTOR", "LEN_16", UUID_CCC, h, {})
HidService(h)        == DbElem("PRIMARY_SERVICE", "LEN_16", UUID_HID_SERVICE, h, {})

LifecycleDbs ==
    {<<HidService(60), ReportChar(61, {"NOTIFY"}), CccDescr(63),
       ReportChar(64, {"INDICATE"}), CccDescr(65)>>}

\* two reports; six reports; reports around attributes with handle 0 and a
\* report that neither notifies nor indicates; a peripheral that reports no
\* attribute; a HID service with an indicate-only report on the fallback
\* descriptor, a Report Map with a descriptor 0x2902, a report with notify and
\* indicate and two descriptors 0x2902, a report without properties, a report
\* without descriptor and a 128-bit characteristic
CacheDbs ==
    LifecycleDbs \cup
    {<<HidService(60),
       ReportChar(70, {"NOTIFY"}), CccDescr(71), ReportChar(72, {"NOTIFY"}), CccDescr(73),
       ReportChar(74, {"NOTIFY"}), CccDescr(75), ReportChar(76, {"INDICATE"}), CccDescr(77),
       ReportChar(78, {"NOTIFY"}), CccDescr(79), ReportChar(80, {"NOTIFY"}), CccDescr(81)>>,
     <<HidService(60), ReportChar(0, {"NOTIFY"}), CccDescr(63),
       ReportChar(61, {"NOTIFY"}), CccDescr(0), ReportChar(66, {}), CccDescr(67),
       ReportChar(64, {"NOTIFY"}), CccDescr(65)>>,
     <<>>,
     <<HidService(60),
       ReportChar(61, {"INDICATE"}), CccDescr(63), DbElem("DESCRIPTOR", "LEN_16", 10504, 64, {}),
       DbElem("CHARACTERISTIC", "LEN_16", 10827, 65, {"NOTIFY"}), CccDescr(66),
       ReportChar(67, {"NOTIFY", "INDICATE"}), CccDescr(68), CccDescr(69),
       ReportChar(70, {}), CccDescr(71),
       ReportChar(72, {"NOTIFY"}),
       DbElem("CHARACTERISTIC", "LEN_128", UUID_REPORT, 73, {"NOTIFY"}), CccDescr(74)>>}

\* service-search results
SearchResults ==
    {<<"LEN_16", UUID_HID_SERVICE, 60, 63>>, <<"LEN_16", 6159, 70, 75>>,
     <<"LEN_128", 0, 60, 65>>}

\* notification payloads
WheelPayloads   == {<<64, 0>>}
GesturePayloads == {<<0, 6>>, <<0, 1>>, <<0, 0>>}
NotifyHandles   == {FALLBACK_INPUT_HANDLE}
\* the value handle of a characteristic that is in no pair of the working set
ForeignHandles  == {40}
WheelGesturePayloads == {<<0, 6>>, <<0, 0>>, <<64, 0>>, <<128, 0>>}
\* payloads of 0, 1 and 3 bytes
ShortPayloads == {<<>>, <<6>>}
LongPayloads  == {<<0, 6, 9>>, <<64, 0, 7>>, <<0, 0, 1>>}

-----------------------------------------------------------------------------
(* Specifications *)

InitWith(records, dbs) ==
    /\ now = StartMs
    /\ connected = FALSE
    /\ timers = [n \in TimerNames |-> NoTimer]
    /\ btn = InstanceButtons0
    /\ active_button = NONE
    /\ pairs = <<>>
    /\ ccc_by_ccc = EmptyMap
    /\ ccc_value_by_ccc = EmptyMap
    /\ loaded_pairs = FALSE
    /\ last_notify_ms = 0
    /\ hid_range = [have_hid_range |-> FALSE, hid_start |-> 0, hid_end |-> 0]
    /\ tried_ccc_both_bits = FALSE
    /\ hc = InstanceHandleCache0
    /\ stored \in records
    /\ emitted = <<>>
    /\ writes = <<>>
    /\ regs = <<>>
    /\ saves = <<>>
    /\ op = "init"
    /\ events = <<>>
    /\ hist = <<>>
    /\ notified = FALSE
    /\ fallback_runs = 0
    /\ opens = 0
    /\ gattdb \in dbs
    /\ saved_pairs = <<>>

\* the lifecycle: connection events, checkpoints, discovery; wheel notifications only.
\* The stack delivers OPEN_EVT on a closed connection and every other event on
\* an open one; timeouts run whenever they are due.
Init == InitWith(LifecycleRecords, LifecycleDbs)

AfterLoad == load_cached_pairs_(Cur, TRUE)

Next ==
    \/ ~connected /\ OpenEvt(TRUE)
    \/ \E wr \in WriteResults(AfterLoad.pairs) : PostOpenFast(TRUE, wr)
    \/ \E wr \in WriteResults(AfterLoad.pairs) : PostOpen(TRUE, wr)
    \/ \E wr \in WriteResults(AfterLoad.pairs), wr2 \in WriteResults(AfterLoad.pairs) :
          CccRetry(TRUE, wr, wr2)
    \/ connected /\ \E wr \in WriteResults(AfterLoad.pairs) : AuthCmpl(TRUE, wr)
    \/ connected /\ \E cnt_ok \in BOOLEAN, db_ok \in {TRUE}, save_ok \in {TRUE} :
          \E wr \in WriteResults(discover_notify_pairs_(AfterLoad, cnt_ok, db_ok,
                                                        gattdb, save_ok).pairs) :
             SearchCmpl(TRUE, cnt_ok, db_ok, save_ok, wr)
    \/ connected /\ Disconnect
    \/ connected /\ \E h \in NotifyHandles \cup ForeignHandles, v \in WheelPayloads :
          Notify(TRUE, h, v)
    \/ \E d \in Steps : Advance(d, MaxTime)

Spec == Init /\ [][Next]_vars

\* the gesture decoder under every sequence of notifications, timeouts and disconnects
InitGesture == InitWith({NoRecord}, {<<>>})

NextGesture ==
    \/ \E conn_ok \in BOOLEAN, h \in NotifyHandles, v \in GesturePayloads :
          Notify(conn_ok, h, v)
    \/ \E b \in Buttons : LongTimeout(b)
    \/ \E b \in Buttons : FinalTimeout(b)
    \/ Disconnect
    \/ \E d \in Steps : Advance(d, MaxGestureTime)

SpecGesture == InitGesture /\ [][NextGesture]_vars

\* the lifecycle when the stack repeats OPEN_EVT on a connection that is already
\* open (an open request answered "already open") and the GAP callback, which is
\* not tied to this connection, reports AUTH_CMPL at any time; the store holds the
\* record an earlier discovery saved; no discovery
InitReopen == InitWith(ReopenRecords, {<<>>})

NextReopen ==
    \/ OpenEvt(TRUE)
    \/ \E wr \in WriteResults(AfterLoad.pairs) : PostOpenFast(TRUE, wr)
    \/ \E wr \in WriteResults(AfterLoad.pairs) : PostOpen(TRUE, wr)
    \/ \E wr \in WriteResults(AfterLoad.pairs), wr2 \in WriteResults(AfterLoad.pairs) :
          CccRetry(TRUE, wr, wr2)
    \/ \E wr \in WriteResults(AfterLoad.pairs) : AuthCmpl(TRUE, wr)
    \/ connected /\ Disconnect
    \/ connected /\ \E h \in NotifyHandles, v \in WheelPayloads : Notify(TRUE, h, v)
    \/ \E d \in Steps : Advance(d, MaxTime)

SpecReopen == InitReopen /\ [][NextReopen]_vars

\* the gesture decoder with wheel codes between the presses and releases of one button
NextWheel ==
    \/ \E h \in NotifyHandles, v \in WheelGesturePayloads \cup ShortPayloads \cup LongPayloads :
          Notify(TRUE, h, v)
    \/ \E b \in Buttons : LongTimeout(b)
    \/ \E b \in Buttons : FinalTimeout(b)
    \/ \E d \in Steps : Advance(d, MaxGestureTime)

SpecWheel == InitGesture /\ [][NextWheel]_vars

\* the gesture decoder under long bursts of one button: up to MaxBurst decoder
\* steps between two idle states, press and release codes of up only
BurstPayloads == {<<0, 6>>, <<0, 0>>}

NextBurst ==
    \/ \E h \in NotifyHandles, v \in BurstPayloads : NotifyWithin(MaxBurst, TRUE, h, v)
    \/ \E b \in Buttons : LongTimeout(b)
    \/ \E b \in Buttons : FinalTimeout(b)
    \/ \E d \in Steps : Advance(d, MaxGestureTime)

SpecBurst == InitGesture /\ [][NextBurst]_vars

\* the gesture decoder under codes of every class: the two wheel codes, the
\* four press codes, the release code, and codes that are none of these
\* (0x0600, 0x4001)
CodePayloads ==
    {<<64, 0>>, <<128, 0>>, <<0, 6>>, <<0, 1>>, <<0, 11>>, <<0, 10>>, <<0, 0>>,
     <<6, 0>>, <<64, 1>>}

NextCodes ==
    \/ \E h \in NotifyHandles, v \in CodePayloads : NotifyWithin(MaxCodes, TRUE, h, v)
    \/ \E b \in Buttons : LongTimeout(b)
    \/ \E b \in Buttons : FinalTimeout(b)
    \/ \E d \in Steps : Advance(d, MaxGestureTime)

SpecCodes == InitGesture /\ [][NextCodes]_vars

\* the gesture decoder with the main loop's scheduling: no disconnect; a
\* notification is delivered only while every timeout it can arm falls due by
\* MaxLiveTime; the loop keeps running, so time passes and a timeout that is due
\* is run (weak fairness of the time advance and of each timeout callback)
NextLive ==
    \/ /\ now + LONG_PRESS_MS <= MaxLiveTime
       /\ \E h \in NotifyHandles, v \in GesturePayloads : Notify(TRUE, h, v)
    \/ \E b \in Buttons : LongTimeout(b)
    \/ \E b \in Buttons : FinalTimeout(b)
    \/ \E d \in Steps : Advance(d, MaxLiveTime)

SpecLive ==
    /\ InitGesture
    /\ [][NextLive]_vars
    /\ WF_vars(\E d \in Steps : Advance(d, MaxLiveTime))
    /\ \A b \in Buttons : WF_vars(LongTimeout(b)) /\ WF_vars(FinalTimeout(b))

\* the handle cache: connections, service search and discovery over the records
\* and databases above, restarts of the device; no time passes.  Every
\* descriptor write of one pass gets the same result.
UniformResults(ps) ==
    {[h \in {ps[i].ccc_handle : i \in 1..Len(ps)} |-> r] : r \in BOOLEAN}

InitCache == InitWith(CacheRecords, CacheDbs)

NextCache ==
    \/ ~connected /\ \E load_ok \in BOOLEAN : OpenEvt(load_ok)
    \/ connected /\ \E sr \in SearchResults : SearchRes(sr[1], sr[2], sr[3], sr[4])
    \/ connected /\ \E cnt_ok \in BOOLEAN, db_ok \in BOOLEAN, save_ok \in BOOLEAN :
          \E wr \in UniformResults(discover_notify_pairs_(AfterLoad, cnt_ok, db_ok,
                                                          gattdb, save_ok).pairs) :
             SearchCmpl(TRUE, cnt_ok, db_ok, save_ok, wr)
    \/ connected /\ Disconnect
    \/ Restart

SpecCache == InitCache /\ [][NextCache]_vars

\* the lifecycle over every record of the store: OPEN_EVT (also repeated, also
\* with a failing read of the record), the three post-open callbacks, AUTH_CMPL
\* at any time, SEARCH_CMPL, disconnects and later connections
InitStored == InitWith(CacheRecords, LifecycleDbs)

NextStored ==
    \/ \E load_ok \in BOOLEAN : OpenEvt(load_ok)
    \/ \E wr \in UniformResults(AfterLoad.pairs) : PostOpenFast(TRUE, wr)
    \/ \E wr \in UniformResults(AfterLoad.pairs) : PostOpen(TRUE, wr)
    \/ \E wr \in UniformResults(AfterLoad.pairs), wr2 \in UniformResults(AfterLoad.pairs) :
          CccRetry(TRUE, wr, wr2)
    \/ \E load_ok \in BOOLEAN :
          \E wr \in UniformResults(load_cached_pairs_(Cur, load_ok).pairs) : AuthCmpl(load_ok, wr)
    \/ connected /\ \E cnt_ok \in BOOLEAN :
          \E wr \in UniformResults(discover_notify_pairs_(AfterLoad, cnt_ok, TRUE,
                                                          gattdb, TRUE).pairs) :
             SearchCmpl(TRUE, cnt_ok, TRUE, TRUE, wr)
    \/ connected /\ Disconnect
    \/ \E d \in Steps : Advance(d, MaxTime)

SpecStored == InitStored /\ [][NextStored]_vars

-----------------------------------------------------------------------------
(* Properties of the gesture decoder (SpecGesture) *)

PressCodes == {6, 1, 11, 10}

\* the steps of hist that changed the decoder state or emitted an event,
\* together with every notification
Effective(h) == SelectSeq(h, LAMBDA e : e[1] # "noop")

\* the last n elements of a sequence (the whole sequence if it is shorter)
LastN(q, n) == IF Len(q) <= n THEN q ELSE SubSeq(q, Len(q) - n + 1, Len(q))

PressStep(raw)   == <<"notify", hex4(raw)>>
ReleaseStep      == <<"notify", "0000">>
FinalStep(b)     == <<"timer", FinalKey(b)>>
LongStep(b)      == <<"timer", LongKey(b)>>
Pressed(raw)     == Event(button_name(raw_to_button_press(raw)) \o "_pressed", -1, hex4(raw))
Released(b)      == Event(button_name(b) \o "_released", -1, "0000")

SingleClickRun(raw) ==
    Effective(hist) = <<PressStep(raw), ReleaseStep, FinalStep(raw_to_button_press(raw))>>

\* C1: from the idle gesture state, press(b), release, b's finalize timer (no
\* other notification in between) emit exactly b_pressed, b_released,
\* b_single with click count 1, and b's click-count is 0 afterwards.
C1_SingleClick ==
    \A raw \in PressCodes :
       LET b == raw_to_button_press(raw)
       IN SingleClickRun(raw) =>
            /\ events = <<Pressed(raw), Released(b), Event(button_name(b) \o "_single", 1, "")>>
            /\ btn[b].click_count = 0

C1_Witness ==
    /\ SingleClickRun(6)
    /\ Len(events) = 3
    /\ events[3].action = "up_single"

DoubleClickRun(raw) ==
    Effective(hist) = <<PressStep(raw), ReleaseStep, PressStep(raw), ReleaseStep,
                        FinalStep(raw_to_button_press(raw))>>

\* C2: from the idle gesture state, press(b), release, press(b), release with
\* no timer of b firing in between, then b's finalize timer, emit exactly
\* b_pressed, b_released, b_pressed, b_released, b_double with click count 2
\* (and so no b_single).
C2_DoubleClick ==
    \A raw \in PressCodes :
       LET b == raw_to_button_press(raw)
       IN DoubleClickRun(raw) =>
            events = <<Pressed(raw), Released(b), Pressed(raw), Released(b),
                       Event(button_name(b) \o "_double", 2, "")>>

C2_Witness ==
    /\ DoubleClickRun(6)
    /\ Len(events) = 5
    /\ events[5].action = "up_double"

ClickSuffixes == {"_single", "_double", "_triple"}
IsClickEvent(e, b) == \E x \in ClickSuffixes : e.action = button_name(b) \o x

LongPressRun(raw) ==
    LastN(Effective(hist), 3) =
       <<PressStep(raw), LongStep(raw_to_button_press(raw)), ReleaseStep>>

LongFiredRun(raw) ==
    LastN(Effective(hist), 2) = <<PressStep(raw), LongStep(raw_to_button_press(raw))>>

\* C3: press(b) then b's long-press timer before any release emit b_pressed
\* then b_long; the release that follows emits b_released and nothing else,
\* arms no finalize timer and leaves b's click-count 0 and long-fired false,
\* so that no click-burst event of b can follow from this press.
C3_LongPress ==
    \A raw \in PressCodes :
       LET b == raw_to_button_press(raw)
       IN /\ LongFiredRun(raw) =>
               LastN(events, 2) = <<Pressed(raw), Event(button_name(b) \o "_long", -1, "")>>
          /\ LongPressRun(raw) =>
               /\ LastN(events, 3) = <<Pressed(raw), Event(button_name(b) \o "_long", -1, ""),
                                       Released(b)>>
               /\ timers[FinalKey(b)] = NoTimer
               /\ btn[b].click_count = 0
               /\ ~btn[b].long_fired

C3_Witness ==
    /\ LongPressRun(6)
    /\ Len(events) >= 3
    /\ emitted = <<Released(UP)>>

-----------------------------------------------------------------------------
(* Properties of the subscription manager (Spec, SpecReopen) *)

Range(q) == {q[i] : i \in 1..Len(q)}

\* descriptor h is marked subscribed and its last write attempt is less than the
\* guard interval old
Subscribed(h) ==
    /\ h \in DOMAIN ccc_by_ccc
    /\ ccc_by_ccc[h].enabled
    /\ now - ccc_by_ccc[h].last_attempt_ms < CCC_MIN_INTERVAL_MS

\* the checkpoints that run the enable pass with force = false
UnforcedOps == {"post_open_fast", "post_open", "open_retry", "search_complete"}

\* the writes of a step that belong to its enable pass: the fallback, which may
\* follow the pass of "open_retry", is the only writer of the value 0x0003
PassWrites(ws) == SelectSeq(ws, LAMBDA w : w.value # CccBytes(3))

\* the pair p got a descriptor write and a registration request
Served(p, ws, rs) ==
    /\ \E k \in 1..Len(ws) : ws[k].handle = p.ccc_handle /\ ws[k].input = p.input_handle
    /\ p.input_handle \in Range(rs)

\* the enable pass with force = false of the step skips the descriptors that
\* are subscribed when it starts
GuardStep ==
    op' \in UnforcedOps =>
      \A h \in DOMAIN ccc_by_ccc :
         Subscribed(h) =>
           /\ \A k \in 1..Len(PassWrites(writes')) : PassWrites(writes')[k].handle # h
           /\ fallback_runs' = fallback_runs =>
                /\ \A i \in 1..Len(pairs') :
                      pairs'[i].ccc_handle = h => pairs'[i].input_handle \notin Range(regs')
                /\ ccc_by_ccc'[h] = ccc_by_ccc[h]

\* the enable pass with force = true of the step writes the descriptor of every pair
ForcedStep ==
    op' = "auth_complete" =>
      \A i \in 1..Len(pairs') : \E k \in 1..Len(writes') : writes'[k].handle = pairs'[i].ccc_handle

\* C4: a descriptor that is marked subscribed and whose last write attempt is
\* less than 5000 ms old gets no descriptor write and no registration request
\* from an enable pass with force = false, and keeps its flag and timestamp; an
\* enable pass with force = true writes the descriptor of every pair of the
\* working set.
C4_SubscriptionGuard == [][GuardStep /\ ForcedStep]_vars

\* the 600 ms pass of a connection found every descriptor subscribed and wrote nothing
C4_Witness ==
    /\ op = "post_open"
    /\ connected
    /\ Len(pairs) > 1
    /\ \A i \in 1..Len(pairs) : Subscribed(pairs[i].ccc_handle)
    /\ writes = <<>>
    /\ regs = <<>>

\* no descriptor is marked subscribed when OPEN_EVT has been handled
NothingSubscribedAtOpen ==
    op = "open" => \A h \in DOMAIN ccc_by_ccc : ~ccc_by_ccc[h].enabled

\* the 80 ms pass of an open connection that starts with no descriptor marked
\* subscribed serves every pair
FirstPassStep ==
    (/\ op' = "post_open_fast"
     /\ connected
     /\ \A h \in DOMAIN ccc_by_ccc : ~ccc_by_ccc[h].enabled)
    => \A i \in 1..Len(pairs') : Served(pairs'[i], writes', regs')

\* C5: after every OPEN_EVT no descriptor is still marked subscribed, and so the
\* pass 80 ms after the open issues a descriptor write and a registration
\* request for every pair of the working set.
C5_FirstPassServesAll == []NothingSubscribedAtOpen /\ [][FirstPassStep]_vars

\* C6: AUTH_CMPL leaves the cache loaded and issues one descriptor write for
\* every pair of the working set, in the order of the pairs, whatever the
\* descriptors' flags and timestamps.
C6_AuthWritesAll ==
    op = "auth_complete" =>
      /\ hc.loaded
      /\ loaded_pairs
      /\ Len(writes) = Len(pairs)
      /\ \A i \in 1..Len(pairs) :
            /\ writes[i].handle = pairs[i].ccc_handle
            /\ writes[i].input = pairs[i].input_handle

\* AUTH_CMPL less than the guard interval after the start wrote a descriptor
\* that was marked subscribed before: the write was refused and the flag is set
C6_Witness ==
    /\ op = "auth_complete"
    /\ now - StartMs < CCC_MIN_INTERVAL_MS
    /\ Len(pairs) > 1
    /\ \E k \in 1..Len(writes) : ~writes[k].ok /\ ccc_by_ccc[writes[k].handle].enabled

\* C7: on SEARCH_CMPL every pair that the discovery scan adds to the working
\* set gets a descriptor write and a registration request in that same step.
C7_NewPairsServed ==
    [][op' = "search_complete" =>
          \A i \in 1..Len(pairs') :
             pairs'[i] \notin Range(AfterLoad.pairs) => Served(pairs'[i], writes', regs')]_vars

\* C8: while the connection is open the fallback has run at most once since it
\* was opened, however often OPEN_EVT and the 2 s callback occur.
C8_FallbackAtMostOnce == connected => fallback_runs <= 1

\* the 2 s callback of a repeated OPEN_EVT, with the fallback already run on
\* this connection and still no notification, writes only the enable pass
C8_Witness ==
    /\ op = "open_retry"
    /\ connected
    /\ opens = 2
    /\ fallback_runs = 1
    /\ ~notified
    /\ tried_ccc_both_bits
    /\ \A k \in 1..Len(writes) : writes[k].value # CccBytes(3)

\* C9: when the 2 s callback of an open connection has run and no notification
\* was received since the open, the value 0x0003 has been written to the
\* descriptor of every pair of the working set.
C9_FallbackRuns ==
    (op = "open_retry" /\ connected /\ ~notified) =>
       \A i \in 1..Len(pairs) :
          \E k \in 1..Len(writes) :
             writes[k].handle = pairs[i].ccc_handle /\ writes[k].value = CccBytes(3)

\* C10: DISCONNECT_EVT empties the descriptors' flags and timestamps, zeroes the
\* last-notification timestamp and the fallback-tried flag, and leaves the
\* pairs, the desired values, the in-memory cache record and the persisted
\* record as they are.
C10_DisconnectFrame ==
    [][op' = "disconnect" =>
          /\ ccc_by_ccc' = EmptyMap
          /\ last_notify_ms' = 0
          /\ tried_ccc_both_bits' = FALSE
          /\ pairs' = pairs
          /\ ccc_value_by_ccc' = ccc_value_by_ccc
          /\ hc' = hc
          /\ stored' = stored]_vars

\* a disconnect of a connection whose discovery had extended the working set
\* and written the record
C10_Witness ==
    /\ op = "disconnect"
    /\ ~connected
    /\ Len(pairs) > 1
    /\ hc.blob.count > 0
    /\ stored # NoRecord
    /\ ccc_by_ccc = EmptyMap
    /\ ~tried_ccc_both_bits

-----------------------------------------------------------------------------
(* Properties of the decoder's state handling (SpecGesture) *)

\* the step handed a zero code to the decoder while a button was active
ReleaseTaken ==
    /\ op' = "notify"
    /\ active_button # NONE
    /\ Len(hist') = Len(hist) + 1
    /\ hist'[Len(hist')] = ReleaseStep

\* the step handed the press code raw to the decoder
PressTaken(raw) == op' = "notify" /\ emitted' = <<Pressed(raw)>>

\* C11: DISCONNECT_EVT puts every button to up, long-fired false, click-count 0
\* and clears the active button; from that state no step but a delivered
\* notification emits an event or changes the gesture state, so the timeouts
\* pending at the disconnect emit nothing.
C11_DisconnectSilences ==
    [][/\ op' = "disconnect" => (GestureIdle' /\ emitted' = <<>>)
       /\ (GestureIdle /\ ~(op' = "notify" /\ last_notify_ms' = now)) =>
             (GestureIdle' /\ emitted' = <<>>)]_vars

\* a finalize timeout that was pending at a disconnect has fired and emitted nothing
C11_Witness ==
    /\ op = "final"
    /\ ~connected
    /\ GestureIdle
    /\ hist = <<<<"noop", FinalKey(UP)>>>>
    /\ emitted = <<>>

\* the effect on button b of a release attributed to it
AfterRelease(st) ==
    IF st.long_fired
    THEN [is_down |-> FALSE, long_fired |-> FALSE, click_count |-> 0]
    ELSE [is_down |-> FALSE, long_fired |-> FALSE,
          click_count |-> IF st.click_count < MAX_CLICKS THEN st.click_count + 1
                          ELSE st.click_count]

\* a press code of another button moves the active button
ReassignStep ==
    \A raw \in PressCodes :
       (active_button \in Buttons \ {raw_to_button_press(raw)} /\ PressTaken(raw))
          => active_button' = raw_to_button_press(raw)

\* C12 as stated: after a press of B while A was active, the next release
\* emits B_released, marks B up, adds one to B's click-count and leaves A alone.
C12_ReleaseCountsClick ==
    [][/\ ReassignStep
       /\ \A a, b \in Buttons :
            (a # b /\ btn[a].is_down /\ active_button = b /\ ReleaseTaken) =>
               /\ emitted' = <<Released(b)>>
               /\ ~btn'[b].is_down
               /\ btn'[b].click_count = btn[b].click_count + 1
               /\ btn'[a] = btn[a]]_vars

\* C12: after a press of B while A was active, the next release emits
\* B_released only, clears the active button, marks B up and counts a click
\* for B (up to three) unless B's long press has fired, in which case B's
\* click-count becomes 0; A's state is not changed.
C12_Reassignment ==
    [][/\ ReassignStep
       /\ \A a, b \in Buttons :
            (a # b /\ btn[a].is_down /\ active_button = b /\ ReleaseTaken) =>
               /\ emitted' = <<Released(b)>>
               /\ active_button' = NONE
               /\ btn'[b] = AfterRelease(btn[b])
               /\ btn'[a] = btn[a]]_vars

\* up pressed, down pressed, one release: down released and counted, up still down
C12_Witness ==
    /\ hist = <<PressStep(6), PressStep(1), ReleaseStep>>
    /\ emitted = <<Released(DOWN)>>
    /\ active_button = NONE
    /\ btn[DOWN] = [is_down |-> FALSE, long_fired |-> FALSE, click_count |-> 1]
    /\ btn[UP] = [is_down |-> TRUE, long_fired |-> FALSE, click_count |-> 0]

-----------------------------------------------------------------------------
(* Properties of the wheel codes (SpecWheel) *)

\* the step handed the wheel code raw to the decoder
WheelTaken(raw) ==
    /\ op' = "notify"
    /\ hist' = Append(IF GestureIdle THEN <<>> ELSE hist, <<"notify", hex4(raw)>>)
    /\ \E h \in NotifyHandles : Notify(TRUE, h, <<raw \div 256, raw % 256>>)

\* C13: a received code 0x4000 (0x8000) emits exactly one rotate_right
\* (rotate_left) event with click count -1 and leaves every button's state, the
\* active button and every timer as they are, in every gesture state.
C13_WheelStateless ==
    [][/\ WheelTaken(16384) =>
             /\ emitted' = <<Event("rotate_right", -1, "4000")>>
             /\ UNCHANGED <<btn, active_button, timers>>
       /\ WheelTaken(32768) =>
             /\ emitted' = <<Event("rotate_left", -1, "8000")>>
             /\ UNCHANGED <<btn, active_button, timers>>]_vars

\* a wheel code in a click burst: after one counted click of up and a second
\* press of up that is still held
C13_Witness ==
    /\ hist = <<PressStep(6), ReleaseStep, PressStep(6), <<"notify", "4000">>>>
    /\ emitted = <<Event("rotate_right", -1, "4000")>>
    /\ active_button = UP
    /\ btn[UP] = [is_down |-> TRUE, long_fired |-> FALSE, click_count |-> 1]
    /\ timers[LongKey(UP)] # NoTimer

-----------------------------------------------------------------------------
(* Properties of the handle cache (SpecCache) *)

FallbackPair == NotifyPair(FALLBACK_INPUT_HANDLE, FALLBACK_CCC_HANDLE)

ValidPair(p) == p.input_handle # 0 /\ p.ccc_handle # 0

\* the first HANDLE_CACHE_MAX_PAIRS valid pairs of ps, in order
FirstValid(ps) ==
    LET v == SelectSeq(ps, ValidPair)
    IN SubSeq(v, 1, IF Len(v) < HANDLE_CACHE_MAX_PAIRS THEN Len(v) ELSE HANDLE_CACHE_MAX_PAIRS)

\* the step is the first OPEN_EVT of an instance: its load_cached_pairs_ loads
LoadTaken == op' = "open" /\ ~hc.loaded

\* the stored record passes the magic and version check
RecordAccepted(r) ==
    r # NoRecord /\ r.magic = HANDLE_CACHE_MAGIC /\ r.version = HANDLE_CACHE_VERSION

C15_RejectedRecord ==
    [][LoadTaken =>
          /\ (~RecordAccepted(stored) \/ hc'.blob # stored) => pairs' = <<FallbackPair>>
          /\ RecordAccepted(stored) =>
                /\ \A i \in 1..Len(pairs') :
                      \/ pairs'[i] = FallbackPair
                      \/ \E k \in 1..HANDLE_CACHE_MAX_PAIRS : pairs'[i] = stored.pairs[k]
                /\ Len(pairs') <= HANDLE_CACHE_MAX_PAIRS + 1]_vars

\* a record with a wrong magic and two pairs was read and contributed nothing
C15_Witness ==
    /\ op = "open"
    /\ stored # NoRecord
    /\ stored.magic # HANDLE_CACHE_MAGIC
    /\ stored.count = 2
    /\ hc.loaded
    /\ hc.blob = HandleCacheBlob0
    /\ pairs = <<FallbackPair>>

CccHandles(ps) == {ps[i].ccc_handle : i \in 1..Len(ps)}

\* C16: the working set never holds two equal pairs, and merging a pair it
\* holds leaves it as it is.
C16_MergeIdempotent ==
    /\ \A i, j \in 1..Len(pairs) : pairs[i] = pairs[j] => i = j
    /\ \A i \in 1..Len(pairs) : add_pair_unique_(pairs, pairs[i]) = pairs

\* the record that repeats the pair (61,63) was loaded: the pair is there once
C16_Witness ==
    /\ op = "open"
    /\ RecordAccepted(stored)
    /\ stored.pairs[1] = stored.pairs[3]
    /\ pairs = <<NotifyPair(61, 63), NotifyPair(64, 65), NotifyPair(66, 67), FallbackPair>>

\* C17: every pair of the working set has a non-zero input handle and a
\* non-zero descriptor handle.
C17_NonZeroHandles == \A i \in 1..Len(pairs) : ValidPair(pairs[i])

\* discovery over the database with zero handles took the one complete report
C17_Witness ==
    /\ op = "search_complete"
    /\ \E i \in 1..Len(gattdb) : gattdb[i].attribute_handle = 0
    /\ stored # NoRecord
    /\ pairs = <<FallbackPair, NotifyPair(64, 65)>>

\* C18: the desired-value map and the write-state map have as keys only
\* descriptor handles of pairs of the working set.
C18_MapKeys ==
    /\ DOMAIN ccc_value_by_ccc \subseteq CccHandles(pairs)
    /\ DOMAIN ccc_by_ccc \subseteq CccHandles(pairs)

\* after discovery and its enable pass both maps cover the three descriptors
C18_Witness ==
    /\ op = "search_complete"
    /\ Len(pairs) >= 3
    /\ Cardinality(CccHandles(pairs)) >= 3
    /\ DOMAIN ccc_value_by_ccc = CccHandles(pairs)
    /\ DOMAIN ccc_by_ccc = CccHandles(pairs)

\* the pair list a record stands for: its count and the pairs in its first slots
Serialized(blob) ==
    <<blob.count,
      [i \in 1..(IF blob.count < HANDLE_CACHE_MAX_PAIRS THEN blob.count
                 ELSE HANDLE_CACHE_MAX_PAIRS) |-> blob.pairs[i]]>>

AddedAt(i) == i \in 1..Len(pairs') /\ pairs'[i] \notin Range(AfterLoad.pairs)

-----------------------------------------------------------------------------
(* Properties of discovery (SpecCache) *)

\* the attributes the two queries of a discovery run in this state ask for
Fetched ==
    IF /\ hid_range.have_hid_range /\ hid_range.hid_start # 0 /\ hid_range.hid_end # 0
       /\ hid_range.hid_end >= hid_range.hid_start
    THEN InRange(gattdb, hid_range.hid_start, hid_range.hid_end)
    ELSE InRange(gattdb, 1, 65535)

\* the step is SEARCH_CMPL with the given results of the two queries
SearchCmplWith(cnt_ok, db_ok) ==
    /\ op' = "search_complete"
    /\ \E save_ok \in BOOLEAN :
          \E wr \in UniformResults(discover_notify_pairs_(AfterLoad, cnt_ok, db_ok,
                                                          gattdb, save_ok).pairs) :
             SearchCmpl(TRUE, cnt_ok, db_ok, save_ok, wr)

\* the step is SEARCH_CMPL with a query that failed or reported no attribute
DiscoveryFailed ==
    \/ SearchCmplWith(FALSE, TRUE)
    \/ SearchCmplWith(TRUE, FALSE)
    \/ SearchCmplWith(FALSE, FALSE)
    \/ SearchCmplWith(TRUE, TRUE) /\ Len(Fetched) = 0

\* the step is SEARCH_CMPL with both queries answered and a walk over the attributes
DiscoveryWalked == SearchCmplWith(TRUE, TRUE) /\ Len(Fetched) > 0

\* descriptor h is marked subscribed
Enabled(h) == h \in DOMAIN ccc_by_ccc /\ ccc_by_ccc[h].enabled

\* C21: when the attribute-count query or the attribute-fetch query fails or
\* reports no attribute, SEARCH_CMPL adds no pair, leaves the desired values,
\* the record in memory and the stored record as they are, issues no
\* persistence write, and its enable pass writes every descriptor of the
\* working set that is not marked subscribed.
C21_DiscoveryFailure ==
    [][DiscoveryFailed =>
          /\ pairs' = pairs
          /\ ccc_value_by_ccc' = ccc_value_by_ccc
          /\ hc' = hc
          /\ stored' = stored
          /\ saves' = <<>>
          /\ \A h \in CccHandles(pairs) :
                ~Enabled(h) => \E k \in 1..Len(writes') : writes'[k].handle = h]_vars

\* SEARCH_CMPL on a peripheral with attributes left the loaded working set of
\* four pairs alone and wrote its three descriptors
C21_Witness ==
    /\ op = "search_complete"
    /\ gattdb # <<>>
    /\ Len(pairs) = 4
    /\ saves = <<>>
    /\ saved_pairs = <<>>
    /\ stored.count = 9
    /\ hc.blob = stored
    /\ Len(writes) = 3

IsReport(e) == e.type = "CHARACTERISTIC" /\ e.uuid_len = "LEN_16" /\ e.uuid16 = UUID_REPORT
IsCcc(e)    == e.type = "DESCRIPTOR" /\ e.uuid_len = "LEN_16" /\ e.uuid16 = UUID_CCC

\* <<i, j>>: db[i] is a Report characteristic with notify or indicate, db[j] is
\* the last descriptor 0x2902 after it and before the next characteristic, and
\* both handles are non-zero
Candidates(db) ==
    {c \in (1..Len(db)) \X (1..Len(db)) :
        /\ c[1] < c[2]
        /\ IsReport(db[c[1]])
        /\ db[c[1]].properties \cap {"NOTIFY", "INDICATE"} # {}
        /\ IsCcc(db[c[2]])
        /\ \A k \in (c[1] + 1)..c[2] : db[k].type # "CHARACTERISTIC"
        /\ \A k \in (c[2] + 1)..Len(db) :
              IsCcc(db[k]) => \E m \in (c[2] + 1)..k : db[m].type = "CHARACTERISTIC"
        /\ db[c[1]].attribute_handle # 0
        /\ db[c[2]].attribute_handle # 0}

PairOf(db, c) == NotifyPair(db[c[1]].attribute_handle, db[c[2]].attribute_handle)

\* C22: a discovery run sets the desired value of the descriptor of every pair
\* it commits to 1 when the characteristic notifies (with or without indicate)
\* and to 2 when it only indicates, whatever the value was; every other
\* descriptor keeps its value, which a load sets to 1.
C22_DesiredValue ==
    [][/\ DiscoveryWalked =>
             /\ \A c \in Candidates(Fetched) :
                   ccc_value_by_ccc'[Fetched[c[2]].attribute_handle] =
                      IF "NOTIFY" \in Fetched[c[1]].properties THEN 1 ELSE 2
             /\ \A h \in DOMAIN ccc_value_by_ccc' :
                   (\A c \in Candidates(Fetched) : Fetched[c[2]].attribute_handle # h) =>
                      (h \in DOMAIN ccc_value_by_ccc /\ ccc_value_by_ccc'[h] = ccc_value_by_ccc[h])
       /\ LoadTaken => \A h \in DOMAIN ccc_value_by_ccc' : ccc_value_by_ccc'[h] = 1]_vars

\* discovery met the indicate-only report on the fallback descriptor and the
\* report with notify and indicate
C22_Witness ==
    /\ op = "search_complete"
    /\ FallbackPair \in Range(pairs)
    /\ NotifyPair(61, FALLBACK_CCC_HANDLE) \in Range(pairs)
    /\ ccc_value_by_ccc[FALLBACK_CCC_HANDLE] = 2
    /\ NotifyPair(67, 69) \in Range(pairs)
    /\ ccc_value_by_ccc[69] = 1
    /\ 71 \in DOMAIN ccc_value_by_ccc
    /\ ccc_value_by_ccc[71] = 1

\* C26: a discovery run keeps the pairs of the working set in place and appends,
\* in the order of the attributes, exactly the pairs (c, d) not yet in it where
\* c is a Report characteristic with notify or indicate and d the last
\* descriptor 0x2902 after c and before the next characteristic.
C26_DiscoveredPairs ==
    [][DiscoveryWalked =>
          /\ Len(pairs') >= Len(pairs)
          /\ SubSeq(pairs', 1, Len(pairs)) = pairs
          /\ Range(pairs') = Range(pairs) \cup {PairOf(Fetched, c) : c \in Candidates(Fetched)}
          /\ \A i, j \in (Len(pairs) + 1)..Len(pairs') :
                i < j => \E c, d \in Candidates(Fetched) :
                            /\ pairs'[i] = PairOf(Fetched, c)
                            /\ pairs'[j] = PairOf(Fetched, d)
                            /\ c[1] < d[1]]_vars

\* discovery over the database with a Report Map, a report with two descriptors
\* 0x2902, a report without properties and a 128-bit characteristic
C26_Witness ==
    /\ op = "search_complete"
    /\ \E i \in 1..Len(gattdb) : gattdb[i].uuid_len = "LEN_128"
    /\ ~hid_range.have_hid_range
    /\ pairs = <<FallbackPair, NotifyPair(61, 63), NotifyPair(67, 69)>>

-----------------------------------------------------------------------------
(* Properties of the descriptor writes (Spec) *)

\* the checkpoints: every handler that runs an enable pass
PassOps == UnforcedOps \cup {"auth_complete"}

EnabledIn(m, h) == h \in DOMAIN m /\ m[h].enabled

Written(ws, h) == \E k \in 1..Len(ws) : ws[k].handle = h

\* descriptor h was written by the step and every write of it failed
AllFailed(ws, h) == Written(ws, h) /\ \A k \in 1..Len(ws) : ws[k].handle = h => ~ws[k].ok

\* C23 as stated: a descriptor whose writes failed at one checkpoint is written
\* by the enable pass of the checkpoint that follows.
C23_FailedWriteRetried ==
    [][\A h \in CccHandles(pairs) :
          (op \in PassOps /\ AllFailed(writes, h) /\ op' \in PassOps) =>
             Written(PassWrites(writes'), h)]_vars

\* C23: a failed write leaves the subscribed flag of its descriptor as it was,
\* and every enable pass, forced or not and at any time, writes every
\* descriptor of the working set that is not marked subscribed; so a
\* descriptor whose write failed is written again by the next checkpoint
\* unless an earlier write had marked it subscribed.
C23_UnsubscribedRetried ==
    [][\A h \in CccHandles(pairs) :
          /\ (op' \in PassOps /\ AllFailed(writes', h)) =>
                (EnabledIn(ccc_by_ccc', h) <=> EnabledIn(ccc_by_ccc, h))
          /\ (op' \in PassOps /\ ~EnabledIn(ccc_by_ccc, h)) =>
                Written(PassWrites(writes'), h)]_vars

\* the pass 600 ms after the only open wrote the fallback descriptor again and
\* succeeded: the write of the pass at 80 ms had failed
C23_Witness ==
    /\ op = "post_open"
    /\ connected
    /\ opens = 1
    /\ now = StartMs + POST_OPEN_MS
    /\ \E k \in 1..Len(writes) : writes[k].handle = FALLBACK_CCC_HANDLE /\ writes[k].ok
    /\ EnabledIn(ccc_by_ccc, FALLBACK_CCC_HANDLE)

\* C27: every write attempt that is not skipped sets the timestamp of its
\* descriptor to the current time and is followed by the registration request
\* for its source handle; a successful write marks the descriptor subscribed
\* (the result of the registration request has no part in it); a failed write
\* leaves the flag as it was, so a marked descriptor stays marked.
C27_WriteAttempt ==
    [][/\ Len(regs') = Len(writes')
       /\ \A k \in 1..Len(writes') :
             LET h == writes'[k].handle
             IN /\ regs'[k] = writes'[k].input
                /\ h \in DOMAIN ccc_by_ccc'
                /\ ccc_by_ccc'[h].last_attempt_ms = now
                /\ writes'[k].ok => ccc_by_ccc'[h].enabled
                /\ EnabledIn(ccc_by_ccc, h) => ccc_by_ccc'[h].enabled
                /\ (AllFailed(writes', h) /\ ~EnabledIn(ccc_by_ccc, h)) =>
                      ~ccc_by_ccc'[h].enabled]_vars

\* a forced pass later than the start failed to write a marked descriptor: the
\* flag is still set, the timestamp is the current time, the registration was asked
C27_Witness ==
    /\ op = "auth_complete"
    /\ now > StartMs
    /\ \E k \in 1..Len(writes) :
          /\ ~writes[k].ok
          /\ AllFailed(writes, writes[k].handle)
          /\ ccc_by_ccc[writes[k].handle] = [enabled |-> TRUE, last_attempt_ms |-> now]
          /\ regs[k] = writes[k].input

\* the writes of the step's enable pass and of the fallback that follows it
FallbackRan  == fallback_runs' > fallback_runs
EnablePart   == IF FallbackRan THEN SubSeq(writes', 1, Len(writes') - Len(pairs')) ELSE writes'
FallbackPart == IF FallbackRan
                THEN SubSeq(writes', Len(writes') - Len(pairs') + 1, Len(writes')) ELSE <<>>

\* C28: every descriptor write of an enable pass carries the desired value of
\* its descriptor, 1 or 2, low byte first; the fallback writes 3 to the
\* descriptor of every pair and no step but discovery changes a desired value.
C28_WrittenValue ==
    [][op' \in PassOps =>
          /\ \A k \in 1..Len(EnablePart) :
                LET w == EnablePart[k]
                    v == IF w.handle \in DOMAIN ccc_value_by_ccc'
                         THEN ccc_value_by_ccc'[w.handle] ELSE 1
                IN v \in {1, 2} /\ w.value = <<v, 0>>
          /\ Len(FallbackPart) = (IF FallbackRan THEN Len(pairs') ELSE 0)
          /\ \A k \in 1..Len(FallbackPart) :
                /\ FallbackPart[k].value = <<3, 0>>
                /\ FallbackPart[k].handle = pairs'[k].ccc_handle
          /\ op' # "search_complete" => ccc_value_by_ccc' = ccc_value_by_ccc]_vars

\* a forced pass after the fallback of this connection wrote the desired value
\* 2 of the indicate-only report
C28_Witness ==
    /\ op = "auth_complete"
    /\ connected
    /\ opens = 1
    /\ fallback_runs = 1
    /\ tried_ccc_both_bits
    /\ \E k \in 1..Len(writes) : writes[k].handle = 65 /\ writes[k].value = <<2, 0>>

-----------------------------------------------------------------------------
(* Properties of the decoder's input handling (SpecGesture, SpecWheel) *)

\* the step handed a zero code to the decoder while no button was active
SpuriousReleaseTaken ==
    /\ op' = "notify"
    /\ active_button = NONE
    /\ hist' = Append(IF GestureIdle THEN <<>> ELSE hist, ReleaseStep)

\* C24: a zero code received while no button is active emits no event and
\* leaves every button's state, the active button and every timer as they are.
C24_SpuriousRelease ==
    [][SpuriousReleaseTaken =>
          /\ emitted' = <<>>
          /\ UNCHANGED <<btn, active_button, timers>>]_vars

\* a second zero code after a click of up: the click is still counted and its
\* finalize timer still pending
C24_Witness ==
    /\ hist = <<PressStep(6), ReleaseStep, ReleaseStep>>
    /\ op = "notify"
    /\ emitted = <<>>
    /\ events = <<Pressed(6), Released(UP)>>
    /\ btn[UP] = [is_down |-> FALSE, long_fired |-> FALSE, click_count |-> 1]
    /\ timers[FinalKey(UP)] # NoTimer

\* C25: a notification of fewer than two bytes emits no event and leaves the
\* gesture state and the timers as they are; a notification of more than two
\* bytes is handled as the notification of its first two bytes, first byte high.
C25_PayloadLength ==
    [][\A h \in NotifyHandles :
          /\ \A v \in ShortPayloads :
                Notify(TRUE, h, v) =>
                   /\ emitted' = <<>>
                   /\ UNCHANGED <<btn, active_button, timers, events, hist>>
          /\ \A v \in LongPayloads :
                Notify(TRUE, h, v) =>
                   /\ Notify(TRUE, h, <<v[1], v[2]>>)
                   /\ hist'[Len(hist')] = <<"notify", hex4(v[1] * 256 + v[2])>>
          /\ Notify(TRUE, h, <<0, 6, 9>>) => emitted' = <<Pressed(6)>>
          /\ Notify(TRUE, h, <<64, 0, 7>>) => emitted' = <<Event("rotate_right", -1, "4000")>>
          /\ (Notify(TRUE, h, <<0, 0, 1>>) /\ active_button = UP) =>
                emitted' = <<Released(UP)>>]_vars

\* a short notification while up is held: nothing emitted, nothing recorded
C25_Witness ==
    /\ op = "notify"
    /\ emitted = <<>>
    /\ hist = <<PressStep(6)>>
    /\ active_button = UP
    /\ btn[UP].is_down
    /\ timers[LongKey(UP)] # NoTimer
    /\ last_notify_ms > StartMs

\* C30: an event single, double or triple of button b is emitted only by b's
\* finalize timer, alone, while b is up, its long-fired flag is clear and its
\* click-count is 1, 2 or 3; it carries that count and the count is 0 afterwards.
C30_ClickEvent ==
    [][\A b \in Buttons :
          \A k \in 1..Len(emitted') :
             IsClickEvent(emitted'[k], b) =>
                /\ op' = "final"
                /\ Len(emitted') = 1
                /\ ~btn[b].is_down
                /\ ~btn[b].long_fired
                /\ btn[b].click_count \in 1..MAX_CLICKS
                /\ emitted'[k] = Event(ClickAction(b, btn[b].click_count), btn[b].click_count, "")
                /\ btn'[b].click_count = 0]_vars

\* the double click of up was reported while down was held
C30_Witness ==
    /\ op = "final"
    /\ emitted = <<Event("up_double", 2, "")>>
    /\ btn[UP] = ButtonState0
    /\ btn[DOWN].is_down
    /\ active_button = DOWN

-----------------------------------------------------------------------------
(* Properties of the load before the enable passes (SpecStored) *)

\* C29: when a checkpoint has run its enable pass (a post-open callback,
\* AUTH_CMPL, SEARCH_CMPL), in the first and in every later connection, the
\* cache is loaded and the pair (62, 63) is in the working set, whatever
\* record the store held.
C29_FallbackPairPresent ==
    op \in PassOps => (hc.loaded /\ loaded_pairs /\ FallbackPair \in Range(pairs))

\* the 80 ms pass of the second connection over the six pairs of a record
\* without the pair (62, 63): the pair is the seventh and its descriptor was written
C29_Witness ==
    /\ op = "post_open_fast"
    /\ connected
    /\ opens = 2
    /\ RecordAccepted(stored)
    /\ FallbackPair \notin {stored.pairs[i] : i \in 1..HANDLE_CACHE_MAX_PAIRS}
    /\ Len(pairs) = 7
    /\ pairs[7] = FallbackPair
    /\ Written(writes, FALLBACK_CCC_HANDLE)

-----------------------------------------------------------------------------
(* Invariants of the per-button state (SpecGesture) *)

\* C37: in every reachable state, for every button, long-fired set implies
\* that the button is marked down and that its click-count is 0.
C37_LongFiredState ==
    \A b \in Buttons :
       btn[b].long_fired => (btn[b].is_down /\ btn[b].click_count = 0)

\* a click of up, then up held until its long press fired: the click counted
\* before the hold is gone
C37_Witness ==
    /\ Effective(hist) = <<PressStep(6), ReleaseStep, PressStep(6), LongStep(UP)>>
    /\ op = "long"
    /\ btn[UP] = [is_down |-> TRUE, long_fired |-> TRUE, click_count |-> 0]

\* C36 as stated: a button is marked down only if it is the active button, so
\* at most one button is marked down and none is when no button is active.
C36_DownOnlyIfActive ==
    /\ \A b \in Buttons : btn[b].is_down => active_button = b
    /\ Cardinality({b \in Buttons : btn[b].is_down}) <= 1
    /\ active_button = NONE => \A b \in Buttons : ~btn[b].is_down

-----------------------------------------------------------------------------
(* Independence of the buttons (SpecGesture) *)

\* the step left the state and the timeouts of every button but b alone
OthersUntouched(b) ==
    \A a \in Buttons \ {b} :
       /\ btn'[a] = btn[a]
       /\ timers'[LongKey(a)] = timers[LongKey(a)]
       /\ timers'[FinalKey(a)] = timers[FinalKey(a)]

\* the step ran the finalize timeout of button a
FinalTaken(a) ==
    /\ op' = "final"
    /\ timers[FinalKey(a)] # NoTimer
    /\ timers'[FinalKey(a)] = NoTimer

\* C33: a press of button B and a release attributed to B change no is-down,
\* long-fired or click-count of another button A and cancel none of A's
\* timeouts; the finalize timeout of a button that is up with a click-count
\* n > 0 emits its single, double or triple event with n clicks, whatever the
\* other buttons are doing.
C33_ButtonsIndependent ==
    [][/\ \A raw \in PressCodes :
            PressTaken(raw) => OthersUntouched(raw_to_button_press(raw))
       /\ ReleaseTaken => OthersUntouched(active_button)
       /\ \A a \in Buttons :
            (FinalTaken(a) /\ ~btn[a].is_down /\ btn[a].click_count > 0) =>
               /\ emitted' = <<Event(ClickAction(a, btn[a].click_count),
                                     btn[a].click_count, "")>>
               /\ btn'[a].click_count = 0]_vars

\* a click of up, down pressed within the gap and held: up_single is emitted
\* when final_up fires, with down still marked down and its long timeout pending
C33_Witness ==
    /\ hist = <<PressStep(6), ReleaseStep, PressStep(1), FinalStep(UP)>>
    /\ emitted = <<Event("up_single", 1, "")>>
    /\ btn[DOWN].is_down
    /\ active_button = DOWN
    /\ timers[LongKey(DOWN)] # NoTimer
    /\ btn[UP] = ButtonState0

-----------------------------------------------------------------------------
(* Long press timing (SpecGesture) *)

\* the step handed a press code of button b to the decoder
PressOf(b) == \E raw \in PressCodes : raw_to_button_press(raw) = b /\ PressTaken(raw)

LongEvent(b) == Event(button_name(b) \o "_long", -1, "")

\* C32: every press code of b arms long_<b> anew, LONG_PRESS_MS from now, and
\* clears long-fired; no other step marks b down or moves that due time, it
\* can only drop the timeout; b_long is emitted only by the long_<b> timeout,
\* alone, at or after that due time, with b marked down and long-fired clear,
\* and the step sets long-fired and drops the timeout.  So b_long comes
\* LONG_PRESS_MS after the most recent press code of b with b marked down all
\* that time, once per press, and a release or a new press of b before the due
\* time leaves the earlier press without a b_long.
C32_LongPressTiming ==
    [][\A b \in Buttons :
         /\ PressOf(b) =>
               /\ timers'[LongKey(b)] = now + LONG_PRESS_MS
               /\ btn'[b].is_down /\ ~btn'[b].long_fired
         /\ ~PressOf(b) =>
               /\ timers'[LongKey(b)] \in {timers[LongKey(b)], NoTimer}
               /\ btn'[b].is_down => btn[b].is_down
               /\ btn'[b].long_fired => (btn[b].long_fired \/ emitted' = <<LongEvent(b)>>)
         /\ (\E i \in 1..Len(emitted') : emitted'[i] = LongEvent(b)) =>
               /\ op' = "long"
               /\ emitted' = <<LongEvent(b)>>
               /\ btn[b].is_down /\ ~btn[b].long_fired
               /\ timers[LongKey(b)] # NoTimer /\ timers[LongKey(b)] <= now
               /\ btn'[b].long_fired
               /\ timers'[LongKey(b)] = NoTimer
         /\ (btn[b].is_down /\ ~btn'[b].is_down /\ op' = "notify") =>
               (btn'[b].long_fired = FALSE /\ ReleaseTaken /\ active_button = b)]_vars

\* up pressed at StartMs, released, pressed again 400 ms later and held: up_long
\* comes 1500 ms after the second press, and nothing came 1500 ms after the first
C32_Witness ==
    /\ Effective(hist) = <<PressStep(6), ReleaseStep, PressStep(6), LongStep(UP)>>
    /\ events = <<Pressed(6), Released(UP), Pressed(6), LongEvent(UP)>>
    /\ op = "long"
    /\ now = StartMs + MULTIPRESS_GAP_MS + LONG_PRESS_MS

-----------------------------------------------------------------------------
(* Click bursts (SpecBurst) *)

\* n press/release pairs of the code raw
BurstRun(raw, n) == [i \in 1..(2 * n) |-> IF i % 2 = 1 THEN PressStep(raw) ELSE ReleaseStep]

\* the events of those n pairs
BurstEvents(raw, n) ==
    [i \in 1..(2 * n) |-> IF i % 2 = 1 THEN Pressed(raw)
                          ELSE Released(raw_to_button_press(raw))]

\* C31: every button's click-count is in 0..3 in every reachable state; after
\* four or more press/release pairs of one button, each press delivered before
\* the pending finalize timeout ran, the finalize timeout emits one b_triple
\* event with click count 3, the only click event of the burst, and the
\* click-count is 0 again.
C31_ClickCountSaturates ==
    /\ \A b \in Buttons : btn[b].click_count \in 0..MAX_CLICKS
    /\ \A raw \in PressCodes : \A n \in 4..(MaxBurst \div 2) :
          LET b == raw_to_button_press(raw)
          IN Effective(hist) = BurstRun(raw, n) \o <<FinalStep(b)>> =>
                /\ events = BurstEvents(raw, n)
                              \o <<Event(button_name(b) \o "_triple", 3, "")>>
                /\ btn[b].click_count = 0

\* five clicks of up in a row, then the finalize timeout: up_triple
C31_Witness ==
    /\ hist = BurstRun(6, 5) \o <<FinalStep(UP)>>
    /\ op = "final"
    /\ emitted = <<Event("up_triple", 3, "")>>
    /\ btn[UP] = ButtonState0

-----------------------------------------------------------------------------
(* Classification of the codes (SpecCodes) *)

\* the classes as the documentation lists them
WheelCodes == {16384, 32768}
ClassOf(raw) ==
    CASE raw \in WheelCodes -> "wheel"
      [] raw \in PressCodes -> "press"
      [] raw = 0            -> "release"
      [] OTHER              -> "unknown"

ButtonOf(raw) ==
    CASE raw = 6 -> UP [] raw = 1 -> DOWN [] raw = 11 -> LEFT [] raw = 10 -> RIGHT

\* over all 16-bit codes: raw_to_button_press names a button for the four press
\* codes only, and hex4 gives four digits
AllCodesClassified ==
    \A raw \in 0..65535 :
       /\ (raw_to_button_press(raw) # NONE) = (raw \in PressCodes)
       /\ raw \in PressCodes => raw_to_button_press(raw) = ButtonOf(raw)
       /\ Len(hex4(raw)) = 4

\* the step handed the two-byte payload v to the decoder
CodeTaken(v) == \E h \in NotifyHandles : NotifyWithin(MaxCodes, TRUE, h, v)

\* C34: every code is handled as exactly one of wheel, press, release or
\* unknown: a wheel code emits its rotate event only, a press code emits
\* <button>_pressed and makes its button the active one, the release code
\* emits nothing or the release of the active button, and any other code emits
\* the one event raw_<four hex digits> with click count -1 and changes no
\* button state, not the active button, and no timeout.
C34_CodeClasses ==
    [][/\ AllCodesClassified
       /\ \A v \in CodePayloads :
            LET raw == v[1] * 256 + v[2]
                cls == ClassOf(raw)
            IN CodeTaken(v) =>
                 /\ cls = "wheel" =>
                       /\ emitted' = <<Event(IF raw = 16384 THEN "rotate_right"
                                             ELSE "rotate_left", -1, hex4(raw))>>
                       /\ UNCHANGED <<btn, active_button, timers>>
                 /\ cls = "press" =>
                       /\ emitted' = <<Event(button_name(ButtonOf(raw)) \o "_pressed",
                                             -1, hex4(raw))>>
                       /\ active_button' = ButtonOf(raw)
                       /\ btn'[ButtonOf(raw)].is_down
                 /\ cls = "release" =>
                       /\ emitted' = IF active_button = NONE THEN <<>>
                                     ELSE <<Released(active_button)>>
                       /\ active_button' = NONE
                 /\ cls = "unknown" =>
                       /\ emitted' = <<Event("raw_" \o hex4(raw), -1, hex4(raw))>>
                       /\ UNCHANGED <<btn, active_button, timers>>]_vars

\* the code 0x0600 (the bytes of the up code swapped) while left is held:
\* one raw_0600 event, left still active and down, its long timeout still pending
C34_Witness ==
    /\ hist = <<PressStep(11), <<"notify", "0600">>>>
    /\ emitted = <<Event("raw_0600", -1, "0600")>>
    /\ op = "notify"
    /\ active_button = LEFT
    /\ btn[LEFT] = [is_down |-> TRUE, long_fired |-> FALSE, click_count |-> 0]
    /\ timers[LongKey(LEFT)] = StartMs + LONG_PRESS_MS

-----------------------------------------------------------------------------
(* Notifications and the working set (Spec) *)

\* C35 as stated: a delivered notification is decoded only when its connection
\* id is the parent's and its handle is the input handle of a pair of the
\* working set; any other notification emits no event and changes no gesture
\* state.
C35_OnlyKnownHandlesDecoded ==
    [][\A conn_ok \in BOOLEAN, h \in NotifyHandles \cup ForeignHandles, v \in WheelPayloads :
         (Notify(conn_ok, h, v) /\ ~(conn_ok /\ input_is_known_(pairs, h))) =>
            /\ emitted' = <<>>
            /\ UNCHANGED <<btn, active_button, timers>>]_vars

-----------------------------------------------------------------------------
(* Failed persistence writes (SpecCache) *)

\* the store holds an accepted record of the first six valid pairs of ps
StoreHolds(ps) ==
    /\ RecordAccepted(stored)
    /\ Serialized(stored) = <<Len(FirstValid(ps)), FirstValid(ps)>>

\* C39 as stated: a failed persistence write is not recorded as saved, so a
\* discovery run that reaches its save while the store does not hold the
\* content of the working set issues the persistence write.
C39_FailedSaveRetried ==
    [][(DiscoveryWalked /\ ~StoreHolds(pairs')) => saves' # <<>>]_vars

-----------------------------------------------------------------------------
(* Pending clicks are classified (SpecLive) *)

\* button b is up with clicks counted
ClicksPending(b) == ~btn[b].is_down /\ btn[b].click_count > 0

\* the finalize timeout of b has just emitted b's click event and cleared the count
ClicksEmitted(b) ==
    /\ op = "final"
    /\ Len(emitted) = 1 /\ IsClickEvent(emitted[1], b)
    /\ btn[b].click_count = 0

\* C38: whenever a button is up with a click-count greater than 0 its finalize
\* timeout is pending; and from such a state, with no disconnect, the button is
\* pressed again or the timeout emits the button's single, double or triple
\* event and the click-count is 0 again.
C38_ClicksClassified ==
    /\ [](\A b \in Buttons : ClicksPending(b) => timers[FinalKey(b)] # NoTimer)
    /\ \A b \in Buttons : ClicksPending(b) ~> (btn[b].is_down \/ ClicksEmitted(b))

\* two clicks of down, then up pressed and held: down_double is emitted when
\* final_down fires
C38_Witness ==
    /\ hist = <<PressStep(1), ReleaseStep, PressStep(1), ReleaseStep, PressStep(6),
                FinalStep(DOWN)>>
    /\ ClicksEmitted(DOWN)
    /\ emitted = <<Event("down_double", 2, "")>>
    /\ btn[UP].is_down

====
